---- MODULE Spec2Model ----
(***************************************************************************)
(* A model of the BITBLE gate compiler: the bit utilities of ble/tools.py,  *)
(* the rotation compiler of ble/mindquantum/qgates.py, the angle trees of  *)
(* BITBLE/anglecompute.py and the circuit planners of                      *)
(* BITBLE/mindquantum/statepreparation.py and blockencoding.py.            *)
(*                                                                         *)
(* Angles are integers counted in units of pi / PI.  A gate is a record    *)
(* [name, obj, ctrl, angle]: obj is the sequence of qubits acted on (two   *)
(* for a SWAP), ctrl the sequence of control qubits, angle the rotation    *)
(* angle (0 for a non-rotation).                                           *)
(***************************************************************************)
EXTENDS Integers, Sequences, FiniteSets, TLC

VARIABLES
    \* which operation this run calls, and where it stands
    pc,
    \* the exception the call ended with, "none" when it returned
    error,
    \* compress_uniformly_rotation: its arguments and locals, and the package
    \* (mindquantum or qpanda) whose qgates module is called
    gate, target_qubit, control_qubits, rotation_angles, epsilon,
    i, cnot_gate_ctrl_qubits, circuit,
    backend, gate_ctrl_qubits, gate_ctrl_states,
    \* different_gray_codes_index: its arguments and its result
    number1, number2, length, index,
    \* the planners: the function called, its arguments (epsilon above; the
    \* outer control_qubits and control_states), its angle trees and (in
    \* circuit, above) the circuit it returns; a call of qgate has its
    \* control_qubits and control_states in outer_qubits and outer_states, its
    \* rotation_angle in rotation_angles and its circuit in circuit
    planner, state, matrix, target_qubits, is_real,
    outer_qubits, outer_states, norm_angles, phase_angles,
    \* the matrix entries are sqrt(w / 2^matrix_scale); what the test reads
    \* back from the unitary of the circuit
    matrix_scale, res_state, res_matrix,
    \* the angle trees: the function called, its vector and what it returns,
    \* the mode of binarytree_vector, the module global temp, and the array
    \* the caller of uniformly_rotation_angles passed, as it is now
    routine, vector, tree_norms, tree_angles, mode, temp, angles_arg,
    \* binary_list and reverse_index_bits: the arguments and what is returned
    num_arg, num_binary, arr_arg, new_arr

urVars == <<gate, target_qubit, control_qubits, rotation_angles, epsilon,
            i, cnot_gate_ctrl_qubits, circuit,
            backend, gate_ctrl_qubits, gate_ctrl_states>>
grayVars == <<number1, number2, length, index>>
planVars == <<planner, state, matrix, target_qubits, is_real,
              outer_qubits, outer_states, norm_angles, phase_angles,
              matrix_scale, res_state, res_matrix>>
treeVars == <<routine, vector, tree_norms, tree_angles, mode, temp, angles_arg>>
toolVars == <<num_arg, num_binary, arr_arg, new_arr>>
vars == <<pc, error, urVars, grayVars, planVars, treeVars, toolVars>>

\* ------------------------------------------------------------------ bounds
\* the largest number of control qubits of a compiled rotation
MaxK == 2
\* the largest truncation threshold tried
MaxEps == 1
\* the largest length different_gray_codes_index is tried with
MaxLength == 5
\* the largest number of target qubits of a prepared state
MaxN == 2
\* an array passed to reverse_index_bits has at most 2^MaxBits entries
MaxBits == 2

\* the angle values an input angle array is drawn from
AngleValues == {-1, 0, 2}

\* ------------------------------------------------------------- arithmetic
Abs(x) == IF x < 0 THEN -x ELSE x

Pow2(e) == 2 ^ e

\* bit p (0 = least significant) of x
Bit(x, p) == (x \div Pow2(p)) % 2

RECURSIVE BitXor(_, _)
\* Python's a ^ b on non-negative integers
BitXor(a, b) ==
    IF a = 0 THEN b
    ELSE IF b = 0 THEN a
    ELSE ((a + b) % 2) + 2 * BitXor(a \div 2, b \div 2)

RECURSIVE FloorLog2(_)
\* int(np.log2(x)) for x >= 1
FloorLog2(x) == IF x <= 1 THEN 0 ELSE 1 + FloorLog2(x \div 2)

\* ------------------------------------------------------------ ble/tools.py
gray_code(x) == BitXor(x, x \div 2)

\* the index counted from the least significant bit instead
different_gray_codes_index_lsb(n1, n2, len) ==
    LET diff == BitXor(gray_code(n1), gray_code(n2))
    IN  FloorLog2(diff)

different_gray_codes_index(n1, n2, len) ==
    LET gray_code_number1 == gray_code(n1)
        gray_code_number2 == gray_code(n2)
        diff == BitXor(gray_code_number1, gray_code_number2)
    IN  len - 1 - FloorLog2(diff)

\* ------------------------------------------------ ble/mindquantum/qgates.py
Gate(name, obj, ctrl, angle) ==
    [name |-> name, obj |-> obj, ctrl |-> ctrl, angle |-> angle]

SupportedGates == {"X", "Y", "Z", "H", "SWAP", "RX", "RY", "RZ"}
RotationGates == {"RX", "RY", "RZ"}

\* X.on(target_qubit, control_qubits[qubit])
CNOT(target, control) == Gate("X", <<target>>, <<control>>, 0)

\* Python's seq[idx]: a negative idx counts from the end; "IndexError"
\* when out of range.
PyInRange(seq, idx) == idx >= -Len(seq) /\ idx < Len(seq)

PyIndex(seq, idx) == IF idx >= 0 THEN seq[idx + 1] ELSE seq[Len(seq) + idx + 1]

\* list.remove(x): drops the first occurrence
ListRemove(list, x) ==
    LET first == CHOOSE j \in 1..Len(list) :
                     list[j] = x /\ \A h \in 1..(j - 1) : list[h] # x
    IN  [j \in 1..(Len(list) - 1) |-> IF j < first THEN list[j] ELSE list[j + 1]]

InList(list, x) == \E j \in 1..Len(list) : list[j] = x

\* qgate with control_qubits = None (lines 34-52): the gate that is appended
qgate_plain(g, target, angle) ==
    Gate(g, IF g = "SWAP" THEN target ELSE <<target>>, <<>>,
         IF g \in RotationGates THEN angle ELSE 0)

\* line 130 with the test the other way round
KeptBelow(angle, eps) == Abs(angle) <= eps

\* abs(rotation_angles[i]) > epsilon
KeptNoAbs(angle, eps) == angle > eps

Kept(angle, eps) == Abs(angle) > eps

\* the CNOTs of one flush (lines 131-132 and 149-150), in list order
FlushGates(target, controls, open) ==
    [j \in 1..Len(open) |-> CNOT(target, PyIndex(controls, open[j]))]

\* lines 140-143: the control index toggled after index idx
ToggleIndexNoWrap(idx, nangles, k) == different_gray_codes_index(idx, idx + 1, k)

ToggleIndex(idx, nangles, k) ==
    IF idx # nangles - 1
    THEN different_gray_codes_index(idx, idx + 1, k)
    ELSE 0

\* lines 144-147
ToggleAppendOnly(open, c) == Append(open, c)

Toggle(open, c) == IF ~InList(open, c) THEN Append(open, c) ELSE ListRemove(open, c)

\* One iteration of the loop of compress_uniformly_rotation (lines 129-147)
\* from the frame fr = [circuit, open]: the frame after it.
LoopBody(g, target, controls, angles, eps, idx, fr) ==
    LET kept == Kept(angles[idx + 1], eps)
        circ1 == IF kept
                 THEN (fr.circuit \o FlushGates(target, controls, fr.open))
                      \o <<qgate_plain(g, target, angles[idx + 1])>>
                 ELSE fr.circuit
        open1 == IF kept THEN <<>> ELSE fr.open
        c == ToggleIndex(idx, Len(angles), Len(controls))
    IN  [circuit |-> circ1, open |-> Toggle(open1, c)]

\* lines 148-151
FinalFlush(target, controls, fr) ==
    [circuit |-> fr.circuit \o FlushGates(target, controls, fr.open), open |-> <<>>]

RECURSIVE LoopFrom(_, _, _, _, _, _, _)
LoopFrom(g, target, controls, angles, eps, idx, fr) ==
    IF idx >= Len(angles) THEN fr
    ELSE LoopFrom(g, target, controls, angles, eps, idx + 1,
                  LoopBody(g, target, controls, angles, eps, idx, fr))

\* compress_uniformly_rotation without outer controls, as a function: the
\* circuit it returns (lines 118-151 and 169)
compress_uniformly_rotation(g, target, controls, angles, eps) ==
    FinalFlush(target, controls,
               LoopFrom(g, target, controls, angles, eps, 0,
                        [circuit |-> <<>>, open |-> <<>>])).circuit

\* control_qubits[qubit] of a flush (lines 132 and 150) raises IndexError
FlushRaises(controls, open) ==
    \E j \in 1..Len(open) : ~PyInRange(controls, open[j])

\* What iteration idx of the loop raises (lines 130-137), "none" when it goes
\* through: the flush comes first, then qgate with its test of the gate.
LoopError(g, controls, angles, eps, idx, open) ==
    IF ~Kept(angles[idx + 1], eps) THEN "none"
    ELSE IF FlushRaises(controls, open) THEN "IndexError"
    ELSE IF g \notin SupportedGates THEN "ValueError"
    ELSE "none"

\* ------------------------------------------------------ ble/tools.py (cont.)
\* One pair of sfwht (lines 116-122): x and y are read from a copy taken
\* before either row is written.
SfwhtPairNoCopy(arr, p, q) ==
    LET x == (arr[p] + arr[q]) \div 2
    IN  [arr EXCEPT ![p] = x, ![q] = (x - arr[q]) \div 2]

SfwhtPair(arr, p, q) ==
    LET x == arr[p]
        y == arr[q]
    IN  [arr EXCEPT ![p] = (x + y) \div 2, ![q] = (x - y) \div 2]

RECURSIVE SfwhtInner(_, _, _, _)
\* for j in range(blk, blk + 2 ** (h - 1)), from j on (1-based rows)
SfwhtInner(arr, h, blk, j) ==
    IF j >= blk + Pow2(h - 1) THEN arr
    ELSE SfwhtInner(SfwhtPair(arr, j, j + Pow2(h - 1)), h, blk, j + 1)

RECURSIVE SfwhtBlocks(_, _, _)
\* for i in range(1, n + 1, 2 ** h), from blk on
SfwhtBlocks(arr, h, blk) ==
    IF blk > Len(arr) THEN arr
    ELSE SfwhtBlocks(SfwhtInner(arr, h, blk, blk), h, blk + Pow2(h))

RECURSIVE SfwhtStages(_, _, _)
\* for h in range(1, k + 1), from h on
SfwhtStages(arr, h, k) ==
    IF h > k THEN arr
    ELSE SfwhtStages(SfwhtBlocks(arr, h, 1), h + 1, k)

\* sfwht on a column of 2^k rows
sfwht(input_array) ==
    SfwhtStages(input_array, 1, FloorLog2(Len(input_array)))

\* output row i = input row gray_code(i)
gray_permutation_identity(input_array) == input_array

gray_permutation(input_array) ==
    [j \in 1..Len(input_array) |-> input_array[gray_code(j - 1) + 1]]

\* np.kron(matrix, [1/2, 1/2]): every entry halved, twice in a row
Leftward(m) ==
    [r \in 1..Len(m) |-> [c \in 1..(2 * Len(m)) |-> m[r][(c + 1) \div 2] \div 2]]

\* np.kron(np.eye(k), [-1, 1]), the entry 1 written as one
Rightward(k, one) ==
    [r \in 1..k |-> [c \in 1..(2 * k) |->
        IF c = 2 * r - 1 THEN 0 - one ELSE IF c = 2 * r THEN one ELSE 0]]

RECURSIVE PhaseMatrixFrom(_, _, _)
\* the loop of lines 54-58 from a matrix of k rows on
PhaseMatrixFrom(m, k, N) ==
    IF k = N THEN m
    ELSE PhaseMatrixFrom(Leftward(m) \o Rightward(k, N), 2 * k, N)

\* phase_angle_matrix_inverse(N) for N = 2^n, n >= 1, as the sequence of its
\* rows; the entries are powers of 1/2 down to 2/N and are written as their
\* N-fold, which makes them integers
phase_angle_matrix_inverse(N) ==
    PhaseMatrixFrom(<<<<0 - N, 0 - N>>, <<0 - N, N>>>>, 2, N)

RECURSIVE BitAnd(_, _)
\* Python's a & b on non-negative integers
BitAnd(a, b) ==
    IF a = 0 \/ b = 0 THEN 0
    ELSE ((a % 2) * (b % 2)) + 2 * BitAnd(a \div 2, b \div 2)

RECURSIVE MikkoLoop(_, _, _, _)
\* the loop of lines 86-91 of mikko_matrix from pass p on: the low bit of
\* binary_times_gray is xor-ed into the matrix, then it is shifted right
MikkoLoop(m, binary_times_gray, p, n) ==
    IF p >= n THEN m
    ELSE MikkoLoop(
             [r \in 1..Len(m) |-> [c \in 1..Len(m) |->
                 BitXor(m[r][c], BitAnd(binary_times_gray[r][c], 1))]],
             [r \in 1..Len(m) |-> [c \in 1..Len(m) |->
                 binary_times_gray[r][c] \div 2]],
             p + 1, n)

\* tools.mikko_matrix(n), lines 82-94, as the sequence of its rows
mikko_matrix(n) ==
    LET N == Pow2(n)
        m == MikkoLoop([r \in 1..N |-> [c \in 1..N |-> 0]],
                       [r \in 1..N |-> [c \in 1..N |->
                           BitAnd(gray_code(c - 1), r - 1)]],
                       0, n)
    IN  [r \in 1..N |-> [c \in 1..N |->
            (0 - 1) * m[r][c] + (IF m[r][c] = 0 THEN 1 ELSE 0)]]

RECURSIVE Dot(_, _)
\* the product of a row and a vector
Dot(row, v) ==
    IF row = <<>> THEN 0 ELSE Head(row) * Head(v) + Dot(Tail(row), Tail(v))

\* ------------------------------------------------- BITBLE/anglecompute.py
\* The unit of angle: PI units make pi.  Every angle the model meets is a
\* multiple of pi/4 halved at most eleven times.
PI == 2 ^ 13

\* A real number is written as a signed weight w, standing for
\* sign(w) * sqrt(|w|); the norm of a pair is then the weight |w0| + |w1|.
NormOfPair(w0, w1) == Abs(w0) + Abs(w1)

\* an angle that is no multiple of pi/4: kept out of the inputs tried
Irrational == PI + 1

\* the value of arccos(0 / 0)
NaN == 0 - (64 * PI + 3)

\* np.arccos(v0 / norm), norm > 0 the weight of the norm of a pair with v0
ArcCos(w0, norm) ==
    IF norm = 0 THEN NaN
    ELSE IF w0 = norm THEN 0
    ELSE IF w0 = -norm THEN PI
    ELSE IF w0 = 0 THEN PI \div 2
    ELSE IF 2 * w0 = norm THEN PI \div 4
    ELSE IF 2 * w0 = -norm THEN 3 * (PI \div 4)
    ELSE Irrational

\* np.mod(np.angle(p0 + p1 * 1j), 2 * np.pi) of a non-zero pair
AngleMod2Pi(w0, w1) ==
    IF w1 = 0 THEN (IF w0 > 0 THEN 0 ELSE PI)
    ELSE IF w0 = 0 THEN (IF w1 > 0 THEN PI \div 2 ELSE 3 * (PI \div 2))
    ELSE IF Abs(w0) # Abs(w1) THEN Irrational
    ELSE IF w0 > 0 /\ w1 > 0 THEN PI \div 4
    ELSE IF w0 < 0 /\ w1 > 0 THEN 3 * (PI \div 4)
    ELSE IF w0 < 0 /\ w1 < 0 THEN 5 * (PI \div 4)
    ELSE 7 * (PI \div 4)

\* lines 21-26 without the test of line 23
BaseAngleUnguarded(w0, w1) == ArcCos(w0, NormOfPair(w0, w1))

\* lines 21-26: the angle of a vector of length 2
BaseAngle(w0, w1) ==
    IF NormOfPair(w0, w1) = 0 THEN 0 ELSE ArcCos(w0, NormOfPair(w0, w1))

RECURSIVE angle_search_binary_tree(_)
\* [norms, angles, err]; err: the recursion never reaches a vector of
\* length 2 (RecursionError)
angle_search_binary_tree(v) ==
    IF Len(v) = 2
    THEN [norms |-> <<NormOfPair(v[1], v[2])>>,
          angles |-> <<BaseAngle(v[1], v[2])>>,
          err |-> FALSE]
    ELSE IF Len(v) < 2
    THEN [norms |-> <<>>, angles |-> <<>>, err |-> TRUE]
    ELSE LET half == Len(v) \div 2
             first == angle_search_binary_tree(SubSeq(v, 1, half))
             second == angle_search_binary_tree(SubSeq(v, half + 1, Len(v)))
         IN  [norms |-> first.norms \o second.norms,
              angles |-> first.angles \o second.angles,
              err |-> first.err \/ second.err]

\* lines 42-49 without the test of line 42
PairAngleUnguarded(w0, w1) ==
    IF NormOfPair(w0, w1) = 0 THEN NaN ELSE AngleMod2Pi(w0, w1)

\* lines 41-49: the angle of one pair
PairAngle(w0, w1) ==
    IF w0 = 0 /\ w1 = 0 THEN 0 ELSE AngleMod2Pi(w0, w1)

positive_transform(v) ==
    [norms |-> [j \in 1..(Len(v) \div 2) |-> NormOfPair(v[2 * j - 1], v[2 * j])],
     angles |-> [j \in 1..(Len(v) \div 2) |-> PairAngle(v[2 * j - 1], v[2 * j])],
     err |-> FALSE]

RECURSIVE NormLoopLeafFirst(_, _)
\* lines 84-86 with the arguments of np.append the other way round
NormLoopLeafFirst(norms, n_angles) ==
    IF Len(norms) = 1 THEN [angles |-> n_angles, err |-> FALSE]
    ELSE LET r == angle_search_binary_tree(norms)
         IN  IF r.err THEN [angles |-> <<>>, err |-> TRUE]
             ELSE NormLoopLeafFirst(r.norms, n_angles \o r.angles)

RECURSIVE NormLoop(_, _)
\* lines 84-86
NormLoop(norms, n_angles) ==
    IF Len(norms) = 1 THEN [angles |-> n_angles, err |-> FALSE]
    ELSE LET r == angle_search_binary_tree(norms)
         IN  IF r.err THEN [angles |-> <<>>, err |-> TRUE]
             ELSE NormLoop(r.norms, r.angles \o n_angles)

\* line 87
DoubleNot(seq) == seq

Double(seq) == [j \in 1..Len(seq) |-> 2 * seq[j]]

\* binarytree_vector(vector, 'norm', is_real), lines 77-89
binarytree_vector_norm(v, real) ==
    LET first == IF real THEN positive_transform(v) ELSE angle_search_binary_tree(v)
    IN  IF first.err THEN [angles |-> <<>>, err |-> TRUE]
        ELSE LET r == NormLoop(first.norms, first.angles)
             IN  [angles |-> Double(r.angles), err |-> r.err]

\* lines 95-99 with the differences taken one entry later
PhaseRoundShifted(v, l) ==
    [j \in 1..Len(v) |->
        IF j <= l THEN (v[2 * j - 1] + v[2 * j]) \div 2
        ELSE IF j < 2 * l THEN v[2 * (j - l) + 1] - v[2 * (j - l)]
        ELSE IF j = 2 * l THEN v[2 * l] - v[2 * l - 1]
        ELSE v[j]]

\* lines 95-99: one round on the first 2 * l entries
PhaseRound(v, l) ==
    [j \in 1..Len(v) |->
        IF j <= l THEN (v[2 * j - 1] + v[2 * j]) \div 2
        ELSE IF j <= 2 * l THEN v[2 * (j - l)] - v[2 * (j - l) - 1]
        ELSE v[j]]

RECURSIVE PhaseRounds(_, _, _, _)
\* for i in range(1, n + 1), from round r on: [vector, temp]
PhaseRounds(v, tmp, r, n) ==
    IF r > n THEN [vector |-> v, temp |-> tmp]
    ELSE LET l == Pow2(n - r)
         IN  PhaseRounds(PhaseRound(v, l), SubSeq(v, 1, 2 * l), r + 1, n)

\* binarytree_vector(vector, 'phase'), lines 91-101, entered with the module
\* global temp holding tmp: [vector, temp, err]
binarytree_vector_phase(v, tmp) ==
    LET n == FloorLog2(Len(v))
        r == PhaseRounds(v, tmp, 1, n)
    IN  IF Len(r.temp) < 2
        THEN [vector |-> r.vector, temp |-> r.temp, err |-> TRUE]
        ELSE [vector |-> [r.vector EXCEPT ![1] = 0 - r.temp[1] - r.temp[2]],
              temp |-> r.temp, err |-> FALSE]

\* lines 169-170
uniformly_rotation_angles(angles) == gray_permutation(sfwht(angles))

\* ------------------------------------------------------- Python's values
\* An optional argument that is None, an int or a list: [t, n, l].
PyNone == [t |-> "none", n |-> 0, l |-> <<>>]
PyInt(x) == [t |-> "int", n |-> x, l |-> <<>>]
PyList(seq) == [t |-> "list", n |-> 0, l |-> seq]

\* state == 0
IsZero(x) == x.t = "int" /\ x.n = 0

\* seq[a:b]
Slice(seq, a, b) ==
    SubSeq(seq, a + 1, IF b < Len(seq) THEN b ELSE Len(seq))

\* circuit.reverse()
Reverse(seq) == [j \in 1..Len(seq) |-> seq[Len(seq) + 1 - j]]

RECURSIVE Digits(_, _)
\* bin(num)[2:], most significant digit first
Digits(num, acc) ==
    IF num < 2 THEN <<num>> \o acc
    ELSE Digits(num \div 2, <<num % 2>> \o acc)

\* binary_list without the zfill of line 169
binary_list_unpadded(num, len) ==
    IF len = 0 THEN <<>> ELSE Digits(num, <<>>)

\* tools.binary_list(num, length), ble/tools.py lines 165-171
binary_list(num, len) ==
    IF len = 0 THEN <<>>
    ELSE LET d == Digits(num, <<>>)
         IN  [j \in 1..(len - Len(d)) |-> 0] \o d

\* ------------------------------------------------------- outer conditioning
\* controlled(circuit)(qubits): every gate gets the qubits as controls
Controlled(circ, qubits) ==
    [j \in 1..Len(circ) |-> [circ[j] EXCEPT !.ctrl = circ[j].ctrl \o qubits]]

\* [control_qubits[index] for index, state in enumerate(states) if state == 0]
RECURSIVE QubitsState0(_, _, _)
QubitsState0(qubits, states, idx) ==
    IF idx > Len(states) THEN <<>>
    ELSE (IF IsZero(states[idx]) THEN <<qubits[idx]>> ELSE <<>>)
         \o QubitsState0(qubits, states, idx + 1)

XGates(qubits) == [j \in 1..Len(qubits) |-> Gate("X", <<qubits[j]>>, <<>>, 0)]

\* the list a control_qubits argument is turned into
AsQubitList(cq) == IF cq.t = "list" THEN cq.l ELSE <<cq.n>>

\* if not isinstance(control_states, list): control_states = [control_states]
StatesIfNotList(cs) ==
    IF cs.t = "list" THEN [j \in 1..Len(cs.l) |-> PyInt(cs.l[j])] ELSE <<cs>>

\* if control_states is not None: control_states = [control_states]
StatesIfNotNone(cs) == <<cs>>

\* The X-conjugated controlled block: X on the controls whose state is 0,
\* the circuit controlled on all the controls, the same X gates again.
Conjugated(circ, qubits, states) ==
    LET qubits_state0 == QubitsState0(qubits, states, 1)
    IN  (XGates(qubits_state0) \o Controlled(circ, qubits)) \o XGates(qubits_state0)

\* statepreparation.py lines 73-87 and 164-178, blockencoding.py lines
\* 105-119: the circuit a planner returns
OuterWrapNotNone(circ, cq, cs) ==
    IF cq.t = "none" THEN circ
    ELSE Conjugated(circ, AsQubitList(cq), StatesIfNotNone(cs))

\* blockencoding.py lines 210-224
OuterWrapNotList(circ, cq, cs) ==
    IF cq.t = "none" THEN circ
    ELSE Conjugated(circ, AsQubitList(cq), StatesIfNotList(cs))

\* qgate with control qubits, ble/mindquantum/qgates.py lines 54-90
qgate_controlled(g, target, qubits, states, angle) ==
    LET qubits_state0 == QubitsState0(qubits, states, 1)
        base == qgate_plain(g, target, angle)
    IN  (XGates(qubits_state0) \o <<[base EXCEPT !.ctrl = qubits]>>)
        \o XGates(qubits_state0)

\* The comprehension that selects the controls required to be 0 (qgate line
\* 62, compress_uniformly_rotation line 158, the planners) raises IndexError:
\* control_qubits[index] is read for a state 0 at an index the list of
\* qubits does not have.
State0Raises(qubits, states) ==
    \E j \in 1..Len(states) : IsZero(states[j]) /\ j > Len(qubits)

\* What a call of qgate raises (lines 34-86), "none" when it returns.
qgate_error(g, cq, cs) ==
    IF cq.t = "none"
    THEN (IF g \in SupportedGates THEN "none" ELSE "ValueError")
    ELSE IF State0Raises(AsQubitList(cq), StatesIfNotList(cs)) THEN "IndexError"
    ELSE IF g \notin SupportedGates THEN "ValueError"
    ELSE "none"

\* qgate(gate, circuit, target_qubit, control_qubits, control_states,
\* rotation_angle): the circuit after a call that returns
qgate(g, circ, target, cq, cs, angle) ==
    IF cq.t = "none" THEN Append(circ, qgate_plain(g, target, angle))
    ELSE circ \o qgate_controlled(g, target, AsQubitList(cq),
                                  StatesIfNotList(cs), angle)

\* the values of a list of control states
StateValues(states) == [j \in 1..Len(states) |-> states[j].n]

\* The qubits the compiled sequence is controlled on: ble/qpanda/qgates.py
\* line 160 passes gate_ctrl_qubits, ble/mindquantum/qgates.py line 162
\* passes gate_ctrl_states.
BlockControls(pkg, qubits, states) ==
    IF pkg = "mindquantum" THEN StateValues(states) ELSE qubits

\* The return of compress_uniformly_rotation, lines 153-169 (151-167 in
\* qpanda): the compiled sequence, conditioned when gate_ctrl_qubits is given.
ur_return(pkg, circ, cq, cs) ==
    IF cq.t = "none" THEN circ
    ELSE LET qubits == AsQubitList(cq)
             states == StatesIfNotList(cs)
             gate_ctrl_qubits_state0 == QubitsState0(qubits, states, 1)
         IN  (XGates(gate_ctrl_qubits_state0)
              \o Controlled(circ, BlockControls(pkg, qubits, states)))
             \o XGates(gate_ctrl_qubits_state0)

\* line 158 raises
ur_return_raises(cq, cs) ==
    cq.t # "none" /\ State0Raises(AsQubitList(cq), StatesIfNotList(cs))

\* --------------------------------- BITBLE/mindquantum/statepreparation.py
\* An amplitude is [w, ph]: modulus sqrt(w) (up to the common scale of the
\* vector) and phase ph, in (-PI, PI]; a real amplitude has phase 0 or PI.
SignedWeight(a) == IF a.ph = PI THEN 0 - a.w ELSE a.w

\* np.abs(state), np.angle(state)
Moduli(st) == [j \in 1..Len(st) |-> st[j].w]
Phases(st) == [j \in 1..Len(st) |-> st[j].ph]
SignedWeights(st) == [j \in 1..Len(st) |-> SignedWeight(st[j])]

\* lines 119-125: the two angle trees of a state
NormAnglesOf(st, real) ==
    IF real THEN binarytree_vector_norm(SignedWeights(st), TRUE).angles
    ELSE binarytree_vector_norm(Moduli(st), FALSE).angles

PhaseAnglesOf(st) == binarytree_vector_phase(Phases(st), <<>>).vector

RECURSIVE SlicesTransformed(_, _, _, _)
\* an angle tree of compressed_state_preparation after the loop of lines
\* 138-146 (152-162 for the phases) from layer on: every slice
\* [angle_index, angle_index + 2^layer) it passes to uniformly_rotation_angles
\* is a view of the tree, and sfwht writes its result into it
SlicesTransformed(angles, angle_index, layer, n) ==
    IF layer >= n THEN angles
    ELSE LET w == Pow2(layer)
             t == sfwht(SubSeq(angles, angle_index + 1, angle_index + w))
         IN  SlicesTransformed(
                 [j \in 1..Len(angles) |->
                     IF j > angle_index /\ j <= angle_index + w
                     THEN t[j - angle_index] ELSE angles[j]],
                 angle_index + w, layer + 1, n)

\* the module global temp after the angle trees of a state are computed (line
\* 125), tmp before
TempAfter(st, real, tmp) ==
    IF real THEN tmp ELSE binarytree_vector_phase(Phases(st), tmp).temp

\* the norm tree of a state cannot be computed: the recursion of
\* angle_search_binary_tree does not end
NormTreeRaises(st, real) ==
    IF real THEN binarytree_vector_norm(SignedWeights(st), TRUE).err
    ELSE binarytree_vector_norm(Moduli(st), FALSE).err

\* a root rotation, emitted only when its angle is kept (lines 127-136)
RootGate(g, target, angle, eps) ==
    IF Kept(angle, eps) THEN <<qgate_plain(g, target, angle)>> ELSE <<>>

RECURSIVE CompressedLayers(_, _, _, _, _, _, _)
\* lines 138-146 and 154-162: the layers from `layer` on, layer l compiled
\* from angles[angle_index : angle_index + 2^l] with controls tq[:l]
CompressedLayers(g, angles, tq, n, eps, layer, angle_index) ==
    IF layer >= n THEN <<>>
    ELSE LET ur_angles == uniformly_rotation_angles(
                              Slice(angles, angle_index, angle_index + Pow2(layer)))
             ur_circuit == compress_uniformly_rotation(
                               g, PyIndex(tq, layer), Slice(tq, 0, layer),
                               ur_angles, eps)
         IN  ur_circuit \o CompressedLayers(g, angles, tq, n, eps, layer + 1,
                                            angle_index + Pow2(layer))

\* lines 113-162 with the phase stages emitted before the norm stages
CompressedStateCircuitPhaseFirst(st, tq, real, eps) ==
    LET n == Len(tq)
        n_angles == NormAnglesOf(st, real)
        p_angles == PhaseAnglesOf(st)
        ry == RootGate("RY", tq[1], n_angles[1], eps)
              \o CompressedLayers("RY", n_angles, tq, n, eps, 1, 1)
    IN  IF real THEN ry
        ELSE (RootGate("RZ", tq[1], p_angles[1], eps)
              \o (RootGate("RZ", tq[1], p_angles[2], eps)
                  \o CompressedLayers("RZ", p_angles, tq, n, eps, 1, 2)))
             \o ry

\* compressed_state_preparation before the outer conditioning, lines 113-162
CompressedStateCircuit(st, tq, real, eps) ==
    LET n == Len(tq)
        n_angles == NormAnglesOf(st, real)
        p_angles == PhaseAnglesOf(st)
        ry == RootGate("RY", tq[1], n_angles[1], eps)
              \o CompressedLayers("RY", n_angles, tq, n, eps, 1, 1)
    IN  IF real THEN ry
        ELSE (RootGate("RZ", tq[1], p_angles[1], eps) \o ry)
             \o (RootGate("RZ", tq[1], p_angles[2], eps)
                 \o CompressedLayers("RZ", p_angles, tq, n, eps, 1, 2))

compressed_state_preparation(st, tq, real, eps, cq, cs) ==
    OuterWrapNotNone(CompressedStateCircuit(st, tq, real, eps), cq, cs)

RECURSIVE PlainLayer(_, _, _, _, _, _)
\* lines 49-55 and 64-70: for i in range(2 ** layer), from idx on
PlainLayer(g, target, qubits, angles, angle_index, idx) ==
    IF idx >= Pow2(Len(qubits)) THEN <<>>
    ELSE qgate_controlled(g, target, qubits,
                          [j \in 1..Len(qubits) |->
                              PyInt(binary_list(idx, Len(qubits))[j])],
                          angles[angle_index + idx + 1])
         \o PlainLayer(g, target, qubits, angles, angle_index, idx + 1)

RECURSIVE PlainRYLayers(_, _, _, _, _)
\* lines 48-56
PlainRYLayers(angles, tq, n, layer, angle_index) ==
    IF layer >= n THEN <<>>
    ELSE PlainLayer("RY", PyIndex(tq, layer), Slice(tq, 0, layer), angles,
                    angle_index, 0)
         \o PlainRYLayers(angles, tq, n, layer + 1, angle_index + Pow2(layer))

RECURSIVE PlainRZLayers(_, _, _, _, _)
\* lines 63-71: the target is the layer number itself
PlainRZLayers(angles, tq, n, layer, angle_index) ==
    IF layer >= n THEN <<>>
    ELSE PlainLayer("RZ", layer, Slice(tq, 0, layer), angles, angle_index, 0)
         \o PlainRZLayers(angles, tq, n, layer + 1, angle_index + Pow2(layer))

\* state_preparation before the outer conditioning, lines 25-71
StateCircuit(st, tq, real) ==
    LET n == Len(tq)
        n_angles == NormAnglesOf(st, real)
        p_angles == PhaseAnglesOf(st)
        ry == <<qgate_plain("RY", tq[1], n_angles[1])>>
              \o PlainRYLayers(n_angles, tq, n, 1, 1)
    IN  IF real THEN ry
        ELSE (<<qgate_plain("RZ", tq[1], p_angles[1])>> \o ry)
             \o (<<qgate_plain("RZ", 0, p_angles[2])>>
                 \o PlainRZLayers(p_angles, tq, n, 1, 2))

state_preparation(st, tq, real, cq, cs) ==
    OuterWrapNotNone(StateCircuit(st, tq, real), cq, cs)

\* ---------------------------------- BITBLE/mindquantum/blockencoding.py
RECURSIVE Concat(_)
\* the circuits of a loop, one after the other
Concat(seqs) == IF seqs = <<>> THEN <<>> ELSE Head(seqs) \o Concat(Tail(seqs))

\* A matrix is the sequence of its rows, each a sequence of amplitudes.
Column(m, c) == [r \in 1..Len(m) |-> m[r][c]]

RECURSIVE SumWeights(_)
SumWeights(col) == IF col = <<>> THEN 0 ELSE Head(col).w + SumWeights(Tail(col))

\* rotation_angles_matrix, anglecompute.py lines 125-150: norm_angles as the
\* sequence of its 2^n + 1 columns, phase_angles as that of its 2^n columns
NormTable(m, real) ==
    LET ncol == Len(m[1])
        column_norm == [c \in 1..ncol |-> SumWeights(Column(m, c))]
    IN  [c \in 1..(ncol + 1) |->
            IF c <= ncol THEN NormAnglesOf(Column(m, c), real)
            ELSE binarytree_vector_norm(column_norm, FALSE).angles]

PhaseTable(m) == [c \in 1..Len(m[1]) |-> PhaseAnglesOf(Column(m, c))]

\* table[a : b, : ncol].flatten(): rows a..b-1 of the first ncol columns, row
\* by row
FlattenRows(table, a, b, ncol) ==
    [f \in 1..((b - a) * ncol) |->
        table[((f - 1) % ncol) + 1][a + ((f - 1) \div ncol) + 1]]

\* table[a : b, -1]: rows a..b-1 of the last column, negated
NegatedLastColumn(table, a, b) ==
    [f \in 1..(b - a) |-> 0 - table[Len(table)][a + f]]

\* lines 184-187
Swaps(tq, n) ==
    [q \in 1..n |-> qgate_plain("SWAP", <<tq[q], tq[n + q]>>, 0)]

\* lines 150-157: the controls of the root phase rotation
RootPhaseControls(tq, n) == Slice(tq, n, Pow2(n))

\* lines 159-168 and 171-180: the controls of layer `layer`
PrepControls(tq, n, layer) == Slice(tq, 0, layer) \o Slice(tq, n, 2 * n)

\* the first row of the angles of a PREP layer: 2^layer - 1 + first
PrepLayer(g, table, tq, n, eps, layer, first) ==
    compress_uniformly_rotation(
        g, PyIndex(tq, layer), PrepControls(tq, n, layer),
        uniformly_rotation_angles(
            FlattenRows(table, Pow2(layer) - 1 + first,
                        2 * Pow2(layer) - 1 + first, Pow2(n))),
        eps)

\* lines 149-181
CompressPrep(m, tq, real, eps) ==
    LET n == FloorLog2(Len(m))
        n_angles == NormTable(m, real)
        p_angles == PhaseTable(m)
        ry == Concat([l \in 1..n |->
                        PrepLayer("RY", n_angles, tq, n, eps, l - 1, 0)])
    IN  IF real THEN ry
        ELSE (compress_uniformly_rotation(
                  "RZ", tq[1], RootPhaseControls(tq, n),
                  uniformly_rotation_angles(FlattenRows(p_angles, 0, 1, Pow2(n))),
                  eps)
              \o ry)
             \o Concat([l \in 1..n |->
                          PrepLayer("RZ", p_angles, tq, n, eps, l - 1, 1)])

\* lines 190-205, without the reversal of line 206
CompressGlobalForward(m, tq, real, eps) ==
    LET n == FloorLog2(Len(m))
        n_angles == NormTable(m, real)
        root == n_angles[Len(n_angles)][1]
    IN  (IF Kept(root, eps) THEN <<qgate_plain("RY", tq[1], 0 - root)>> ELSE <<>>)
        \o Concat([l \in 1..(n - 1) |->
              compress_uniformly_rotation(
                  "RY", PyIndex(tq, l), Slice(tq, 0, l),
                  uniformly_rotation_angles(
                      NegatedLastColumn(n_angles, Pow2(l) - 1, 2 * Pow2(l) - 1)),
                  eps)])

\* lines 190-207, the reversal included
CompressGlobal(m, tq, real, eps) ==
    LET n == FloorLog2(Len(m))
        n_angles == NormTable(m, real)
        root == n_angles[Len(n_angles)][1]
    IN  Reverse(
            (IF Kept(root, eps) THEN <<qgate_plain("RY", tq[1], 0 - root)>> ELSE <<>>)
            \o Concat([l \in 1..(n - 1) |->
                  compress_uniformly_rotation(
                      "RY", PyIndex(tq, l), Slice(tq, 0, l),
                      uniformly_rotation_angles(
                          NegatedLastColumn(n_angles, Pow2(l) - 1, 2 * Pow2(l) - 1)),
                      eps)]))

\* compress_qcircuit before the outer conditioning, lines 138-208
CompressQCircuit(m, tq, real, eps) ==
    (CompressPrep(m, tq, real, eps) \o Swaps(tq, FloorLog2(Len(m))))
    \o CompressGlobal(m, tq, real, eps)

compress_qcircuit(m, tq, real, eps, cq, cs) ==
    OuterWrapNotList(CompressQCircuit(m, tq, real, eps), cq, cs)

\* the control states binary_list(i, layer) + binary_list(col, n)
StatesOf(bits) == [j \in 1..Len(bits) |-> PyInt(bits[j])]

\* lines 59-69 and 71-81: the multiplexed rotations of one column
PlainPrepColumn(g, table, tq, n, col, first) ==
    Concat([l \in 1..n |->
        Concat([idx \in 1..Pow2(l - 1) |->
            qgate_controlled(
                g, tq[l], PrepControls(tq, n, l - 1),
                StatesOf(binary_list(idx - 1, l - 1) \o binary_list(col - 1, n)),
                table[col][Pow2(l - 1) - 1 + first + idx])])])

\* lines 50-82
PlainPrep(m, tq, real) ==
    LET n == FloorLog2(Len(m))
        n_angles == NormTable(m, real)
        p_angles == PhaseTable(m)
        ry == Concat([col \in 1..Pow2(n) |->
                        PlainPrepColumn("RY", n_angles, tq, n, col, 0)])
    IN  IF real THEN ry
        ELSE (Concat([col \in 1..Pow2(n) |->
                        qgate_controlled("RZ", tq[1], Slice(tq, n, 2 * n),
                                         StatesOf(binary_list(col - 1, n)),
                                         p_angles[col][1])])
              \o ry)
             \o Concat([col \in 1..Pow2(n) |->
                          PlainPrepColumn("RZ", p_angles, tq, n, col, 1)])

\* lines 91-103, the reversal included
PlainGlobal(m, tq, real) ==
    LET n == FloorLog2(Len(m))
        n_angles == NormTable(m, real)
        last == n_angles[Len(n_angles)]
    IN  Reverse(Concat([l \in 1..n |->
            Concat([idx \in 1..Pow2(l - 1) |->
                qgate_controlled("RY", tq[l], Slice(tq, 0, l - 1),
                                 StatesOf(binary_list(idx - 1, l - 1)),
                                 0 - last[Pow2(l - 1) - 1 + idx])])]))

\* qcircuit before the outer conditioning, lines 39-103
QCircuit(m, tq, real) ==
    (PlainPrep(m, tq, real) \o Swaps(tq, FloorLog2(Len(m))))
    \o PlainGlobal(m, tq, real)

qcircuit(m, tq, real, cq, cs) ==
    OuterWrapNotNone(QCircuit(m, tq, real), cq, cs)

\* ---------------------------------------------------------------- counting
IsRotation(gt) == gt.name \in RotationGates /\ gt.ctrl = <<>>
IsCNOT(gt) == gt.name = "X" /\ Len(gt.ctrl) = 1

NumRotations(circ) == Cardinality({j \in 1..Len(circ) : IsRotation(circ[j])})
NumCNOTs(circ) == Cardinality({j \in 1..Len(circ) : IsCNOT(circ[j])})

\* ------------------------------------------------ the unitary of a circuit
\* What the unitary of a circuit on the qubits 0..nq-1 does to a basis state,
\* computed exactly.  Qubit q is bit q of the index of a basis state; a state
\* is the sequence of its amplitudes, that of index x at position x + 1.  An
\* amplitude is [w, e, ph]: modulus sqrt(w / 2^e) and phase ph counted in half
\* units (TURN of them make a full turn), so that RZ(theta) shifts a phase by
\* theta.
TURN == 4 * PI

ZeroAmp == [w |-> 0, e |-> 0, ph |-> 0]
OneAmp == [w |-> 1, e |-> 0, ph |-> 0]
\* an amplitude that is not of this form
Inexact == [w |-> -1, e |-> 0, ph |-> 0]

RECURSIVE Reduce(_, _)
\* w / 2^e in lowest terms
Reduce(w, e) ==
    IF e > 0 /\ w % 2 = 0 THEN Reduce(w \div 2, e - 1)
    ELSE [w |-> w, e |-> e, ph |-> 0]

Amp(w, e, ph) ==
    IF w = 0 THEN ZeroAmp ELSE [Reduce(w, e) EXCEPT !.ph = ph % TURN]

\* cos(k * pi / 4) as [z, h, s]: zero, of modulus 1 / sqrt(2) rather than 1,
\* negative
Cos8(k) ==
    CASE k = 0 -> [z |-> FALSE, h |-> FALSE, s |-> FALSE]
      [] k \in {1, 7} -> [z |-> FALSE, h |-> TRUE, s |-> FALSE]
      [] k \in {2, 6} -> [z |-> TRUE, h |-> FALSE, s |-> FALSE]
      [] k \in {3, 5} -> [z |-> FALSE, h |-> TRUE, s |-> TRUE]
      [] k = 4 -> [z |-> FALSE, h |-> FALSE, s |-> TRUE]

\* sin(x) = cos(x - pi / 2)
Sin8(k) == Cos8((k + 6) % 8)

Minus(coef) == [coef EXCEPT !.s = ~coef.s]

\* the product of a coefficient and an amplitude
Times(coef, amp) ==
    IF coef.z \/ amp.w = 0 THEN ZeroAmp
    ELSE IF amp.w < 0 THEN Inexact
    ELSE Amp(amp.w, amp.e + (IF coef.h THEN 1 ELSE 0),
             amp.ph + (IF coef.s THEN TURN \div 2 ELSE 0))

\* the sum of two amplitudes, when it has the form of an amplitude
Plus(x, y) ==
    IF x.w = 0 THEN y
    ELSE IF y.w = 0 THEN x
    ELSE IF x.w < 0 \/ y.w < 0 \/ x.w # y.w \/ x.e # y.e THEN Inexact
    ELSE IF x.ph = y.ph THEN Amp(4 * x.w, x.e, x.ph)
    ELSE IF (x.ph - y.ph) % TURN = TURN \div 2 THEN ZeroAmp
    ELSE Inexact

\* RY(theta) = [[cos(theta/2), -sin(theta/2)], [sin(theta/2), cos(theta/2)]]
\* on the amplitudes a0, a1 of the two values of its target: the new
\* amplitude of the value bit
RYPair(theta, a0, a1, bit) ==
    IF a0.w = 0 /\ a1.w = 0 THEN ZeroAmp
    ELSE IF theta % (PI \div 2) # 0 THEN Inexact
    ELSE LET k == (theta % (4 * PI)) \div (PI \div 2)
         IN  IF bit = 0 THEN Plus(Times(Cos8(k), a0), Times(Minus(Sin8(k)), a1))
             ELSE Plus(Times(Sin8(k), a0), Times(Cos8(k), a1))

\* RZ(theta) = diag(exp(-i theta/2), exp(i theta/2))
Phase(amp, shift) ==
    IF amp.w <= 0 THEN amp ELSE [amp EXCEPT !.ph = (amp.ph + shift) % TURN]

\* the index x with bit q set to v
WithBit(x, q, v) == x + (v - Bit(x, q)) * Pow2(q)

\* every control qubit is 1 in the basis state of index x
ControlsOn(ctrl, x) == \A k \in 1..Len(ctrl) : Bit(x, ctrl[k]) = 1

\* the sequence a function on 1..n is
Tup(f) == f \o <<>>

\* A state under simulation is [amp, q, ang]: the RY rotations on the qubit q
\* met since the last other gate are held back as the angle ang[x + 1] they
\* add up to on the basis state of index x, and act on amp when another gate
\* comes.
NoPending == 0 - 1

FlushRY(s) ==
    IF s.q = NoPending THEN s
    ELSE [amp |-> Tup([j \in 1..Len(s.amp) |->
                         RYPair(s.ang[WithBit(j - 1, s.q, 0) + 1],
                                s.amp[WithBit(j - 1, s.q, 0) + 1],
                                s.amp[WithBit(j - 1, s.q, 1) + 1],
                                Bit(j - 1, s.q))]),
          q |-> NoPending,
          ang |-> Tup([j \in 1..Len(s.amp) |-> 0])]

\* the index of the basis state a SWAP of q1 and q2 turns that of index x into
Swapped(x, q1, q2) == WithBit(WithBit(x, q1, Bit(x, q2)), q2, Bit(x, q1))

\* RY(angle) on t with the controls ctrl, held back
HoldRY(s, ctrl, t, angle) ==
    [amp |-> s.amp, q |-> t,
     ang |-> Tup([j \in 1..Len(s.amp) |->
                    s.ang[j] + (IF ControlsOn(ctrl, j - 1) THEN angle ELSE 0)])]

\* X on the qubit of the rotations held back: each of them is turned over,
\* X RY(a) X = RY(-a)
TurnOver(s, ctrl, t) ==
    [amp |-> Tup([j \in 1..Len(s.amp) |->
                    s.amp[IF ControlsOn(ctrl, j - 1)
                          THEN WithBit(j - 1, t, 1 - Bit(j - 1, t)) + 1 ELSE j]]),
     q |-> t,
     ang |-> Tup([j \in 1..Len(s.amp) |->
                    IF ControlsOn(ctrl, j - 1) THEN 0 - s.ang[j] ELSE s.ang[j]])]

\* X, SWAP or RZ with nothing held back
Direct(s, g, t) ==
    [s EXCEPT !.amp =
        Tup([j \in 1..Len(s.amp) |->
            IF ~ControlsOn(g.ctrl, j - 1) THEN s.amp[j]
            ELSE IF g.name = "X" THEN s.amp[WithBit(j - 1, t, 1 - Bit(j - 1, t)) + 1]
            ELSE IF g.name = "SWAP" THEN s.amp[Swapped(j - 1, t, g.obj[2]) + 1]
            ELSE IF g.name = "RZ"
            THEN Phase(s.amp[j], IF Bit(j - 1, t) = 1 THEN g.angle ELSE 0 - g.angle)
            ELSE Inexact])]

\* one gate of the circuit: RY is held back, X on the qubit of the rotations
\* held back turns them over, any other gate first lets them act
ApplyGate(s, g) ==
    LET t == g.obj[1]
    IN  IF g.name = "RY"
        THEN CHOOSE r \in {HoldRY(f, g.ctrl, t, g.angle) :
                              f \in {IF s.q = t THEN s ELSE FlushRY(s)}} : TRUE
        ELSE IF g.name = "X" /\ s.q = t THEN TurnOver(s, g.ctrl, t)
        ELSE CHOOSE r \in {Direct(f, g, t) : f \in {FlushRY(s)}} : TRUE

RECURSIVE RunFrom(_, _, _)
RunFrom(circ, k, s) ==
    IF k > Len(circ) THEN FlushRY(s)
    ELSE CHOOSE r \in {RunFrom(circ, k + 1, f) : f \in {ApplyGate(s, circ[k])}} : TRUE

\* the column of the unitary of circ on the qubits 0..nq-1 that belongs to
\* the basis state of index x0
UnitaryColumn(circ, nq, x0) ==
    RunFrom(circ, 1, [amp |-> Tup([j \in 1..Pow2(nq) |->
                                     IF j = x0 + 1 THEN OneAmp ELSE ZeroAmp]),
                      q |-> NoPending,
                      ang |-> Tup([j \in 1..Pow2(nq) |-> 0])]).amp

\* an index left where it is
reverse_index_bits_kept(idx, nq) == idx % Pow2(nq)

RECURSIVE reverse_index_bits(_, _)
\* tools.reverse_index_bits on one index of nq bits, ble/tools.py lines 210-212
reverse_index_bits(idx, nq) ==
    IF nq = 0 THEN 0
    ELSE Bit(idx, 0) * Pow2(nq - 1) + reverse_index_bits(idx \div 2, nq - 1)

\* what np.empty_like leaves in an entry that is never written
Unwritten == "unwritten"

RECURSIVE ReverseDimLoop(_, _, _, _)
\* the loop of lines 210-221 of _reverse_dim from index on (from 0), arr and
\* new_arr as the sequences of their entries along the dimension
ReverseDimLoop(arr, new, idx, n) ==
    IF idx >= Len(arr) THEN new
    ELSE ReverseDimLoop(arr,
                        [new EXCEPT ![reverse_index_bits(idx, n) + 1] = arr[idx + 1]],
                        idx + 1, n)

\* _reverse_dim(arr, dim), ble/tools.py lines 195-222, along the first
\* dimension of arr (its entries are numbers or rows)
reverse_dim(arr) ==
    ReverseDimLoop(arr, [p \in 1..Len(arr) |-> Unwritten], 0, FloorLog2(Len(arr)))

\* tools.reverse_index_bits(arr), ble/tools.py lines 224-228, for an array
\* [ndim, a] of one or two dimensions: a is the sequence of its entries or of
\* its rows; the last dimension is reversed first
reverse_index_bits_array(arr) ==
    IF arr.ndim = 1 THEN [ndim |-> 1, a |-> reverse_dim(arr.a)]
    ELSE [ndim |-> 2,
          a |-> reverse_dim([r \in 1..Len(arr.a) |-> reverse_dim(arr.a[r])])]

\* get_prepared_state(circuit.matrix()), statepreparation.py lines 194-197,
\* for a circuit on the qubits 0..nq-1
get_prepared_state(circ, nq) ==
    LET col == UnitaryColumn(circ, nq, 0)
    IN  [j \in 1..Pow2(nq) |-> col[reverse_index_bits(j - 1, nq) + 1]]

\* get_encoded_matrix(circuit.matrix(), n), blockencoding.py lines 238-241,
\* for a circuit on the qubits 0..2n-1: the rows of the block
get_encoded_matrix(circ, n) ==
    LET cols == Tup([j \in 1..Pow2(n) |->
                       UnitaryColumn(circ, 2 * n, reverse_index_bits(j - 1, 2 * n))])
    IN  [r \in 1..Pow2(n) |-> [j \in 1..Pow2(n) |->
            cols[j][reverse_index_bits(r - 1, 2 * n) + 1]]]

\* ------------------------------------------------------- the state machine
\* The calls of compress_uniformly_rotation that are tried: k controls, an
\* angle array of length 2^k, and one of two layouts of the qubits.
Controls(k, layout) ==
    IF layout = 0 THEN [j \in 1..k |-> j - 1] ELSE [j \in 1..k |-> k + 1 - j]

Target(k, layout) == IF layout = 0 THEN k ELSE 0

\* no outer control, and the package the planners are written for
NoGateCtrl ==
    /\ backend = "mindquantum"
    /\ gate_ctrl_qubits = PyNone /\ gate_ctrl_states = PyNone

URIdle ==
    /\ gate = "RY" /\ target_qubit = 0 /\ control_qubits = <<>>
    /\ rotation_angles = <<>> /\ epsilon = 0
    /\ i = 0 /\ cnot_gate_ctrl_qubits = <<>> /\ circuit = <<>>
    /\ NoGateCtrl

GrayIdle == number1 = 0 /\ number2 = 0 /\ length = 0 /\ index = 0

PlanIdle ==
    /\ planner = "none" /\ state = <<>> /\ matrix = <<>> /\ target_qubits = <<>>
    /\ is_real = FALSE /\ outer_qubits = PyNone /\ outer_states = PyNone
    /\ norm_angles = <<>> /\ phase_angles = <<>>
    /\ matrix_scale = 0 /\ res_state = <<>> /\ res_matrix = <<>>

\* the module global temp before any call of binarytree_vector has set it
Unset == <<0 - 1>>

TreeIdle ==
    /\ routine = "none" /\ vector = <<>> /\ tree_norms = <<>> /\ tree_angles = <<>>
    /\ mode = "norm" /\ temp = Unset /\ angles_arg = <<>>

ToolIdle == num_arg = 0 /\ num_binary = <<>> /\ arr_arg = <<>> /\ new_arr = <<>>

\* compress_uniformly_rotation is entered (lines 118-128)
InitUR ==
    /\ pc = "ur_loop"
    /\ \E k \in 1..MaxK, layout \in {0, 1} :
          /\ gate = (IF layout = 0 THEN "RY" ELSE "RZ")
          /\ target_qubit = Target(k, layout)
          /\ control_qubits = Controls(k, layout)
          /\ rotation_angles \in [1..Pow2(k) -> AngleValues]
    /\ epsilon \in 0..MaxEps
    /\ i = 0 /\ cnot_gate_ctrl_qubits = <<>> /\ circuit = <<>>
    /\ NoGateCtrl /\ error = "none"
    /\ GrayIdle /\ PlanIdle /\ TreeIdle /\ ToolIdle

\* different_gray_codes_index(i, i + 1, length) is called
InitGray ==
    /\ pc = "gray_call"
    /\ length \in 1..MaxLength
    /\ number1 \in 0..(Pow2(length) - 2)
    /\ number2 = number1 + 1
    /\ index = 0
    /\ error = "none"
    /\ URIdle /\ PlanIdle /\ TreeIdle /\ ToolIdle

\* one pass of the loop body, lines 129-147
URLoopStep ==
    /\ pc = "ur_loop" /\ i < Len(rotation_angles)
    /\ LoopError(gate, control_qubits, rotation_angles, epsilon, i,
                 cnot_gate_ctrl_qubits) = "none"
    /\ LET fr == LoopBody(gate, target_qubit, control_qubits, rotation_angles,
                          epsilon, i,
                          [circuit |-> circuit, open |-> cnot_gate_ctrl_qubits])
       IN  /\ circuit' = fr.circuit
           /\ cnot_gate_ctrl_qubits' = fr.open
    /\ i' = i + 1
    /\ UNCHANGED <<pc, error, gate, target_qubit, control_qubits,
                   rotation_angles, epsilon, backend, gate_ctrl_qubits,
                   gate_ctrl_states, grayVars, planVars, treeVars, toolVars>>

\* the loop is over: the last flush and the return, lines 148-169
URFinish ==
    /\ pc = "ur_loop" /\ i = Len(rotation_angles)
    /\ ~FlushRaises(control_qubits, cnot_gate_ctrl_qubits)
    /\ ~ur_return_raises(gate_ctrl_qubits, gate_ctrl_states)
    /\ LET fr == FinalFlush(target_qubit, control_qubits,
                            [circuit |-> circuit, open |-> cnot_gate_ctrl_qubits])
       IN  /\ circuit' = ur_return(backend, fr.circuit,
                                   gate_ctrl_qubits, gate_ctrl_states)
           /\ cnot_gate_ctrl_qubits' = fr.open
    /\ pc' = "ur_done"
    /\ UNCHANGED <<error, gate, target_qubit, control_qubits, rotation_angles,
                   epsilon, i, backend, gate_ctrl_qubits, gate_ctrl_states,
                   grayVars, planVars, treeVars, toolVars>>

\* what a call of compress_uniformly_rotation that raises leaves alone
URRaiseFrame ==
    UNCHANGED <<gate, target_qubit, control_qubits, rotation_angles, epsilon,
                i, cnot_gate_ctrl_qubits, circuit, backend, gate_ctrl_qubits,
                gate_ctrl_states, grayVars, planVars, treeVars, toolVars>>

\* a pass of the loop body raises: IndexError at line 132, ValueError from
\* qgate at lines 134-137
URLoopRaise ==
    /\ pc = "ur_loop" /\ i < Len(rotation_angles)
    /\ LoopError(gate, control_qubits, rotation_angles, epsilon, i,
                 cnot_gate_ctrl_qubits) # "none"
    /\ error' = LoopError(gate, control_qubits, rotation_angles, epsilon, i,
                          cnot_gate_ctrl_qubits)
    /\ pc' = "ur_raised"
    /\ URRaiseFrame

\* the last flush (line 150) or the selection of the outer controls
\* required to be 0 (line 158) raises IndexError
URFinishRaise ==
    /\ pc = "ur_loop" /\ i = Len(rotation_angles)
    /\ \/ FlushRaises(control_qubits, cnot_gate_ctrl_qubits)
       \/ ur_return_raises(gate_ctrl_qubits, gate_ctrl_states)
    /\ error' = "IndexError"
    /\ pc' = "ur_raised"
    /\ URRaiseFrame

\* qgate returns, lines 34-90: the gate is appended to the circuit
QGateReturn ==
    /\ pc = "qgate_call"
    /\ qgate_error(gate, outer_qubits, outer_states) = "none"
    /\ circuit' = qgate(gate, circuit, target_qubit, outer_qubits, outer_states,
                        rotation_angles[1])
    /\ pc' = "qgate_done"
    /\ UNCHANGED <<error, gate, target_qubit, control_qubits, rotation_angles,
                   epsilon, i, cnot_gate_ctrl_qubits, backend, gate_ctrl_qubits,
                   gate_ctrl_states, grayVars, planVars, treeVars, toolVars>>

\* qgate raises: IndexError at line 62, or ValueError at line 52 or 86, the
\* latter after the X gates of lines 65-66 were appended to the circuit
QGateRaise ==
    /\ pc = "qgate_call"
    /\ qgate_error(gate, outer_qubits, outer_states) # "none"
    /\ error' = qgate_error(gate, outer_qubits, outer_states)
    /\ circuit' =
          (IF outer_qubits.t # "none"
                /\ qgate_error(gate, outer_qubits, outer_states) = "ValueError"
           THEN circuit \o XGates(QubitsState0(AsQubitList(outer_qubits),
                                               StatesIfNotList(outer_states), 1))
           ELSE circuit)
    /\ pc' = "qgate_raised"
    /\ UNCHANGED <<gate, target_qubit, control_qubits, rotation_angles,
                   epsilon, i, cnot_gate_ctrl_qubits, backend, gate_ctrl_qubits,
                   gate_ctrl_states, grayVars, planVars, treeVars, toolVars>>

\* different_gray_codes_index returns, lines 30-35
GrayReturn ==
    /\ pc = "gray_call"
    /\ index' = different_gray_codes_index(number1, number2, length)
    /\ pc' = "gray_done"
    /\ UNCHANGED <<error, number1, number2, length, urVars, planVars, treeVars,
                   toolVars>>

\* The amplitudes a state is drawn from: 0, 1, -1 and, when complex, i, -i.
Amplitudes(real) ==
    {[w |-> 0, ph |-> 0], [w |-> 1, ph |-> 0], [w |-> 1, ph |-> PI]}
    \cup (IF real THEN {}
          ELSE {[w |-> 1, ph |-> PI \div 2], [w |-> 1, ph |-> 0 - (PI \div 2)]})

RECURSIVE Dyadic(_)
\* Every angle of the norm tree of these weights is a multiple of pi/4: the
\* two halves of every node weigh the same or one of them weighs nothing.
Dyadic(ws) ==
    IF Len(ws) <= 1 THEN TRUE
    ELSE /\ \A j \in 1..(Len(ws) \div 2) :
               \/ ws[2 * j - 1] = ws[2 * j]
               \/ ws[2 * j - 1] = 0
               \/ ws[2 * j] = 0
         /\ Dyadic([j \in 1..(Len(ws) \div 2) |-> ws[2 * j - 1] + ws[2 * j]])

\* the phase of a product, as np.angle gives it: in (-PI, PI]
NormPhase(ph) == ((ph + PI - 1) % (2 * PI)) - (PI - 1)

\* the product of two amplitudes
Product(x, y) ==
    IF x.w * y.w = 0 THEN [w |-> 0, ph |-> 0]
    ELSE [w |-> x.w * y.w, ph |-> NormPhase(x.ph + y.ph)]

\* the states of the first qubit that the longer states are built with
FirstQubit(real) ==
    {s \in [1..2 -> Amplitudes(real)] :
        s[1] \in {[w |-> 0, ph |-> 0], [w |-> 1, ph |-> 0]} /\ s[1].w + s[2].w # 0}

RECURSIVE States(_, _)
\* the states on n qubits that are tried, none of them zero: on one or two
\* qubits every state with dyadic weights, on more the products of a state of
\* the first qubit and a state of the other qubits
States(n, real) ==
    IF n <= 2
    THEN {st \in [1..Pow2(n) -> Amplitudes(real)] :
             Dyadic(Moduli(st)) /\ \E j \in 1..Pow2(n) : st[j].w # 0}
    ELSE {[j \in 1..Pow2(n) |->
              Product(s[((j - 1) \div Pow2(n - 1)) + 1],
                      st[((j - 1) % Pow2(n - 1)) + 1])] :
             s \in FirstQubit(real), st \in States(n - 1, real)}

\* list(range(n))
RangeList(n) == [j \in 1..n |-> j - 1]

\* the target qubit lists tried: range(n) and, for one or two qubits, n
\* qubits from 2 on
TargetLists(n) ==
    {RangeList(n)} \cup (IF n <= 2 THEN {[j \in 1..n |-> j + 1]} ELSE {})

\* the thresholds a planner is tried with
PlannerEps == {e * (PI \div 4) : e \in 0..(2 * MaxEps)}

\* the outer controls tried, on qubits 7 and 8
OuterChoices ==
    {<<PyList(<<7>>), PyList(<<0>>)>>, <<PyList(<<7>>), PyList(<<1>>)>>,
     <<PyList(<<7, 8>>), PyList(<<0, 1>>)>>, <<PyList(<<7, 8>>), PyList(<<1, 1>>)>>,
     <<PyList(<<7, 8>>), PyList(<<0, 0>>)>>,
     <<PyInt(7), PyInt(0)>>, <<PyInt(7), PyInt(1)>>, <<PyList(<<7>>), PyInt(0)>>}

\* the two values of an angle array passed with outer controls
CtrlAngleValues == {0, 1}

\* the outer controls compress_uniformly_rotation and qgate are tried with, on
\* qubits 7 and 8: as many states as qubits, then more qubits than states,
\* then more states than qubits
GateCtrlChoices ==
    OuterChoices
    \cup {<<PyList(<<7, 8>>), PyList(<<0>>)>>, <<PyList(<<7, 8>>), PyList(<<1>>)>>,
          <<PyList(<<7, 8>>), PyInt(0)>>}
    \cup {<<PyList(<<7>>), PyList(<<0, 1>>)>>, <<PyList(<<7>>), PyList(<<1, 0>>)>>,
          <<PyList(<<7>>), PyList(<<1, 1>>)>>, <<PyInt(7), PyList(<<0, 0>>)>>}

\* compress_uniformly_rotation (or compressed_uniformly_rotation of qpanda) is
\* entered with gate_ctrl_qubits and gate_ctrl_states, on k controls from
\* qubit 2 on and 2^k angles
InitURCtrl ==
    /\ pc = "ur_loop"
    /\ gate = "RY"
    /\ \E k \in 1..MaxK :
          /\ target_qubit = k + 2
          /\ control_qubits = [j \in 1..k |-> j + 1]
          /\ rotation_angles \in [1..Pow2(k) -> CtrlAngleValues]
    /\ epsilon \in 0..MaxEps
    /\ i = 0 /\ cnot_gate_ctrl_qubits = <<>> /\ circuit = <<>>
    /\ backend \in {"mindquantum", "qpanda"}
    /\ \E gc \in GateCtrlChoices :
          gate_ctrl_qubits = gc[1] /\ gate_ctrl_states = gc[2]
    /\ error = "none"
    /\ GrayIdle /\ PlanIdle /\ TreeIdle /\ ToolIdle

\* the lengths of the angle arrays tried with any number of controls
AngleLengths == {1, 2, 4, 8}

\* a gate kind outside the supported set
UnsupportedGates == {"CZ"}

\* compress_uniformly_rotation is entered with k controls and an angle array
\* whose length may differ from 2^k, for a supported or an unsupported gate
InitURAny ==
    /\ pc = "ur_loop"
    /\ gate \in {"RY"} \cup UnsupportedGates
    /\ \E k \in 1..MaxK :
          /\ target_qubit = Target(k, 0)
          /\ control_qubits = Controls(k, 0)
    /\ \E len \in AngleLengths : rotation_angles \in [1..len -> CtrlAngleValues]
    /\ epsilon \in 0..MaxEps
    /\ i = 0 /\ cnot_gate_ctrl_qubits = <<>> /\ circuit = <<>>
    /\ NoGateCtrl /\ error = "none"
    /\ GrayIdle /\ PlanIdle /\ TreeIdle /\ ToolIdle

\* the gate kinds qgate is tried with
QGateKinds == {"X", "H", "RY", "RZ"} \cup UnsupportedGates

\* qgate is called on target qubit 0 of an empty circuit, without control
\* qubits or with some
InitQGate ==
    /\ pc = "qgate_call"
    /\ gate \in QGateKinds
    /\ target_qubit = 0 /\ control_qubits = <<>>
    /\ \E a \in CtrlAngleValues : rotation_angles = <<a>>
    /\ epsilon = 0
    /\ i = 0 /\ cnot_gate_ctrl_qubits = <<>> /\ circuit = <<>>
    /\ backend \in {"mindquantum", "qpanda"}
    /\ gate_ctrl_qubits = PyNone /\ gate_ctrl_states = PyNone
    /\ error = "none"
    /\ planner = "none" /\ state = <<>> /\ matrix = <<>> /\ target_qubits = <<>>
    /\ is_real = FALSE
    /\ \/ outer_qubits = PyNone /\ outer_states = PyNone
       \/ \E gc \in GateCtrlChoices : outer_qubits = gc[1] /\ outer_states = gc[2]
    /\ norm_angles = <<>> /\ phase_angles = <<>>
    /\ matrix_scale = 0 /\ res_state = <<>> /\ res_matrix = <<>>
    /\ GrayIdle /\ TreeIdle /\ ToolIdle

\* the matrices of the block-encoding test have 2^n rows, n = 2
BlockN == 2

\* the Kronecker product of two matrices of two rows
Kron(ma, mb) ==
    [r \in 1..4 |-> [c \in 1..4 |->
        Product(ma[((r - 1) \div 2) + 1][((c - 1) \div 2) + 1],
                mb[((r - 1) % 2) + 1][((c - 1) % 2) + 1])]]

\* the weights of the columns of a matrix
ColumnWeights(m) == [c \in 1..Len(m[1]) |-> SumWeights(Column(m, c))]

\* the matrices of two rows that are tried: every one with dyadic weights
Matrices2(real) ==
    {m \in [1..2 -> [1..2 -> Amplitudes(real)]] : Dyadic(ColumnWeights(m))}

\* the second factor of the matrices of four rows that are tried: the
\* identity and a Hadamard pattern and, for a real matrix, a single entry and
\* a single column
Factors(real) ==
    LET one == [w |-> 1, ph |-> 0]
        neg == [w |-> 1, ph |-> PI]
        nil == [w |-> 0, ph |-> 0]
    IN  {<<<<one, nil>>, <<nil, one>>>>, <<<<one, one>>, <<one, neg>>>>}
        \cup (IF real
              THEN {<<<<nil, one>>, <<nil, nil>>>>, <<<<one, nil>>, <<neg, nil>>>>}
              ELSE {})

\* the matrices of 2^n rows that are tried
Matrices(n, real) ==
    IF n = 1 THEN Matrices2(real)
    ELSE {Kron(ma, mb) : ma \in Matrices2(real), mb \in Factors(real)}

\* the weight of the Frobenius norm of a matrix
FrobeniusWeight(m) == SumWeights(Concat(m))

\* the scale at which the Frobenius norm of a matrix is 1 (0 for the zero
\* matrix)
UnitScale(m) ==
    IF FrobeniusWeight(m) = 0 THEN 0 ELSE FloorLog2(FrobeniusWeight(m))

\* the scales a matrix is tried with: Frobenius norm 1 and, for a matrix of
\* two rows, 1 / sqrt(2)
Scales(m) ==
    IF FrobeniusWeight(m) # 0 /\ Len(m) = 2
    THEN {UnitScale(m), UnitScale(m) + 1}
    ELSE {UnitScale(m)}

\* the vectors an angle tree is computed of: signed weights, dyadic, the zero
\* vector among them
TreeVectors(n) ==
    {v \in [1..Pow2(n) -> {0 - 1, 0, 1}] : Dyadic([j \in 1..Pow2(n) |-> Abs(v[j])])}

NoCall ==
    /\ gate = "RY" /\ target_qubit = 0 /\ control_qubits = <<>>
    /\ rotation_angles = <<>>
    /\ i = 0 /\ cnot_gate_ctrl_qubits = <<>> /\ circuit = <<>>
    /\ NoGateCtrl /\ error = "none"
    /\ GrayIdle /\ ToolIdle
    /\ norm_angles = <<>> /\ phase_angles = <<>>
    /\ res_state = <<>> /\ res_matrix = <<>>

\* state_preparation or compressed_state_preparation is called
InitStatePrep ==
    /\ pc = "plan_call"
    /\ planner \in {"state_preparation", "compressed_state_preparation"}
    /\ is_real \in BOOLEAN
    /\ \E n \in 1..MaxN :
          /\ target_qubits \in TargetLists(n)
          /\ state \in States(n, is_real)
          /\ \/ outer_qubits = PyNone /\ outer_states = PyNone
             \/ /\ n = 1
                /\ \E oc \in OuterChoices :
                      outer_qubits = oc[1] /\ outer_states = oc[2]
    /\ epsilon \in (IF planner = "state_preparation" THEN {0} ELSE PlannerEps)
    /\ matrix = <<>> /\ matrix_scale = 0
    /\ NoCall /\ TreeIdle

\* qcircuit or compress_qcircuit is called
InitBlock ==
    /\ pc = "plan_call"
    /\ planner \in {"qcircuit", "compress_qcircuit"}
    /\ is_real \in BOOLEAN
    /\ \E n \in 1..BlockN :
          /\ matrix \in Matrices(n, is_real)
          /\ \/ /\ target_qubits \in (IF n = 1 THEN TargetLists(2) ELSE {RangeList(2 * n)})
                /\ outer_qubits = PyNone /\ outer_states = PyNone
                /\ matrix_scale \in Scales(matrix)
                /\ epsilon \in (IF planner = "qcircuit" THEN {0} ELSE PlannerEps)
             \/ /\ n = 1 /\ is_real
                /\ target_qubits = RangeList(2)
                /\ \E oc \in OuterChoices :
                      outer_qubits = oc[1] /\ outer_states = oc[2]
                /\ matrix_scale = UnitScale(matrix)
                /\ epsilon = 0
    /\ state = <<>>
    /\ NoCall /\ TreeIdle

\* angle_search_binary_tree, positive_transform or binarytree_vector(.,
\* 'norm', is_real) is called
InitTree ==
    /\ pc = "tree_call"
    /\ routine \in {"angle_search_binary_tree", "positive_transform",
                    "binarytree_vector"}
    /\ is_real \in (IF routine = "binarytree_vector" THEN BOOLEAN ELSE {FALSE})
    /\ \E n \in 1..MaxN : vector \in TreeVectors(n)
    /\ tree_norms = <<>> /\ tree_angles = <<>>
    /\ mode = "norm" /\ temp = Unset /\ angles_arg = <<>>
    /\ planner = "none" /\ state = <<>> /\ matrix = <<>> /\ target_qubits = <<>>
    /\ outer_qubits = PyNone /\ outer_states = PyNone
    /\ matrix_scale = 0 /\ epsilon = 0
    /\ NoCall

\* angle_search_binary_tree or binarytree_vector(., 'norm', is_real) is called
\* with a vector of length 2^n, n >= 0
InitTreeLen ==
    /\ pc = "tree_call"
    /\ routine \in {"angle_search_binary_tree", "binarytree_vector"}
    /\ is_real \in (IF routine = "binarytree_vector" THEN BOOLEAN ELSE {FALSE})
    /\ \E n \in 0..MaxN : vector \in TreeVectors(n)
    /\ tree_norms = <<>> /\ tree_angles = <<>>
    /\ mode = "norm" /\ temp = Unset /\ angles_arg = <<>>
    /\ planner = "none" /\ state = <<>> /\ matrix = <<>> /\ target_qubits = <<>>
    /\ outer_qubits = PyNone /\ outer_states = PyNone
    /\ matrix_scale = 0 /\ epsilon = 0
    /\ NoCall

\* lengths that are no power of two
BadLengths == {3, 5, 6}

\* the phases a vector of phases is drawn from
PhaseValues == {0, PI \div 2, PI}

\* the vectors of a length that is no power of two: signed weights for the
\* norm tree, phases for the phase tree
BadVectors(md) ==
    IF md = "norm"
    THEN UNION {{v \in [1..len -> {0 - 1, 0, 1}] :
                    Dyadic([j \in 1..len |-> Abs(v[j])])} : len \in BadLengths}
    ELSE UNION {[1..len -> PhaseValues] : len \in {3, 5}}

\* binarytree_vector is called with a vector whose length is no power of two
InitTreeDim ==
    /\ pc = "tree_call"
    /\ routine = "binarytree_vector"
    /\ mode \in {"norm", "phase"}
    /\ is_real \in (IF mode = "norm" THEN BOOLEAN ELSE {FALSE})
    /\ vector \in BadVectors(mode)
    /\ tree_norms = <<>> /\ tree_angles = <<>>
    /\ temp = Unset /\ angles_arg = <<>>
    /\ planner = "none" /\ state = <<>> /\ matrix = <<>> /\ target_qubits = <<>>
    /\ outer_qubits = PyNone /\ outer_states = PyNone
    /\ matrix_scale = 0 /\ epsilon = 0
    /\ NoCall

\* compressed_state_preparation is called with a state whose length is no
\* power of two, on as many target qubits as int(log2(length))
InitStatePrepDim ==
    /\ pc = "plan_call"
    /\ planner = "compressed_state_preparation"
    /\ is_real \in BOOLEAN
    /\ \E len \in (IF is_real THEN BadLengths ELSE {3}) :
          /\ target_qubits = RangeList(FloorLog2(len))
          /\ state \in {st \in [1..len -> Amplitudes(is_real)] :
                           Dyadic(Moduli(st)) /\ \E j \in 1..len : st[j].w # 0}
    /\ outer_qubits = PyNone /\ outer_states = PyNone
    /\ epsilon = 0
    /\ matrix = <<>> /\ matrix_scale = 0
    /\ NoCall /\ TreeIdle

\* the Kronecker product of a matrix of four rows and one of two rows
Kron8(ma, mb) ==
    [r \in 1..8 |-> [c \in 1..8 |->
        Product(ma[((r - 1) \div 2) + 1][((c - 1) \div 2) + 1],
                mb[((r - 1) % 2) + 1][((c - 1) % 2) + 1])]]

\* the diagonal matrices of two rows with entries of modulus 1
PhaseFactors ==
    {m \in Matrices2(FALSE) :
        m[1][1].w = 1 /\ m[2][2].w = 1 /\ m[1][2].w = 0 /\ m[2][1].w = 0}

\* the complex matrices of eight rows that are tried
Matrices8 ==
    {Kron8(Kron(ma, mb), mc) :
        ma \in PhaseFactors, mb \in Factors(FALSE), mc \in Factors(FALSE)}

\* compress_qcircuit is called without outer controls on a matrix of 2^n
\* rows, n up to one more than in the test, with a list of 2n target qubits
\* or a longer one
InitPrep ==
    /\ pc = "plan_call"
    /\ planner = "compress_qcircuit"
    /\ \E n \in 1..(BlockN + 1) :
          /\ \/ n <= BlockN /\ is_real \in BOOLEAN /\ matrix \in Matrices(n, is_real)
             \/ n > BlockN /\ is_real = FALSE /\ matrix \in Matrices8
          /\ \E extra \in 0..2 : target_qubits = RangeList(2 * n + extra)
    /\ outer_qubits = PyNone /\ outer_states = PyNone
    /\ matrix_scale = UnitScale(matrix)
    /\ epsilon \in PlannerEps
    /\ state = <<>>
    /\ NoCall /\ TreeIdle

\* compress_qcircuit is called for a real matrix of two rows with outer
\* control qubits and control states that are not as many
InitBlockCtrl ==
    /\ pc = "plan_call"
    /\ planner = "compress_qcircuit"
    /\ is_real = TRUE
    /\ matrix \in Matrices(1, TRUE)
    /\ target_qubits = RangeList(2)
    /\ \E gc \in GateCtrlChoices \ OuterChoices :
          outer_qubits = gc[1] /\ outer_states = gc[2]
    /\ matrix_scale = UnitScale(matrix)
    /\ epsilon = 0
    /\ state = <<>>
    /\ NoCall /\ TreeIdle

\* binarytree_vector(vector, 'phase') is called with 2^n phases, n >= 1, in
\* a process that has called nothing before
InitPhase ==
    /\ pc = "tree_call"
    /\ routine = "binarytree_vector"
    /\ mode = "phase" /\ is_real = FALSE
    /\ \E n \in 1..MaxN : vector \in [1..Pow2(n) -> PhaseValues]
    /\ tree_norms = <<>> /\ tree_angles = <<>>
    /\ temp = Unset /\ angles_arg = <<>>
    /\ planner = "none" /\ state = <<>> /\ matrix = <<>> /\ target_qubits = <<>>
    /\ outer_qubits = PyNone /\ outer_states = PyNone
    /\ matrix_scale = 0 /\ epsilon = 0
    /\ NoCall

\* the phases of the calls one process makes in a row
SessionPhases == {0, PI}

\* the first call of a process: binarytree_vector(vector, 'phase') on 2^n
\* phases, n >= 0, the module global temp not yet set
InitSession ==
    /\ pc = "tree_call"
    /\ routine = "binarytree_vector"
    /\ mode = "phase" /\ is_real = FALSE
    /\ \E n \in 0..MaxN : vector \in [1..Pow2(n) -> SessionPhases]
    /\ tree_norms = <<>> /\ tree_angles = <<>>
    /\ temp = Unset /\ angles_arg = <<>>
    /\ planner = "none" /\ state = <<>> /\ matrix = <<>> /\ target_qubits = <<>>
    /\ outer_qubits = PyNone /\ outer_states = PyNone
    /\ matrix_scale = 0 /\ epsilon = 0
    /\ NoCall

\* uniformly_rotation_angles(angles) is called on an array of 2^k angles:
\* angles_arg is the caller's array, vector its values at the call
InitTransform ==
    /\ pc = "tree_call"
    /\ routine = "uniformly_rotation_angles"
    /\ \E k \in 0..MaxN : angles_arg \in [1..Pow2(k) -> PhaseValues]
    /\ vector = angles_arg
    /\ mode = "norm" /\ is_real = FALSE
    /\ tree_norms = <<>> /\ tree_angles = <<>>
    /\ temp = Unset
    /\ planner = "none" /\ state = <<>> /\ matrix = <<>> /\ target_qubits = <<>>
    /\ outer_qubits = PyNone /\ outer_states = PyNone
    /\ matrix_scale = 0 /\ epsilon = 0
    /\ NoCall

\* binary_list(num, length) is called
InitBinaryList ==
    /\ pc = "tool_call"
    /\ routine = "binary_list"
    /\ length \in 0..MaxLength
    /\ num_arg \in 0..Pow2(MaxLength)
    /\ num_binary = <<>> /\ arr_arg = <<>> /\ new_arr = <<>>
    /\ number1 = 0 /\ number2 = 0 /\ index = 0
    /\ vector = <<>> /\ tree_norms = <<>> /\ tree_angles = <<>>
    /\ mode = "norm" /\ temp = Unset /\ angles_arg = <<>>
    /\ error = "none"
    /\ URIdle /\ PlanIdle

\* the entries of an array passed to reverse_index_bits
ArrValues == {0, 1}

\* the arrays of one dimension of size 2^n
Arrays1 ==
    {[ndim |-> 1, a |-> v] :
        v \in UNION {[1..Pow2(n) -> ArrValues] : n \in 0..MaxBits}}

\* the arrays of two dimensions of sizes 2^a and 2^b
Arrays2 ==
    {[ndim |-> 2, a |-> m] :
        m \in UNION {[1..Pow2(sh[1]) -> [1..Pow2(sh[2]) -> ArrValues]] :
                        sh \in {t \in (0..MaxBits) \X (0..MaxBits) :
                                    t[1] + t[2] <= MaxBits}}}

\* reverse_index_bits(arr) is called: arr_arg is the caller's array, vector
\* its value at the call
InitReverse ==
    /\ pc = "tool_call"
    /\ routine = "reverse_index_bits"
    /\ (arr_arg \in Arrays1 \/ arr_arg \in Arrays2)
    /\ vector = arr_arg
    /\ new_arr = <<>> /\ num_arg = 0 /\ num_binary = <<>>
    /\ tree_norms = <<>> /\ tree_angles = <<>>
    /\ mode = "norm" /\ temp = Unset /\ angles_arg = <<>>
    /\ error = "none"
    /\ URIdle /\ PlanIdle /\ GrayIdle

\* rotation_angles_matrix(matrix, is_real) is called on a matrix of 2^n rows
InitTable ==
    /\ pc = "tree_call"
    /\ routine = "rotation_angles_matrix"
    /\ is_real \in BOOLEAN
    /\ \E n \in 1..BlockN : matrix \in Matrices(n, is_real)
    /\ vector = <<>> /\ tree_norms = <<>> /\ tree_angles = <<>>
    /\ mode = "norm" /\ temp = Unset /\ angles_arg = <<>>
    /\ planner = "none" /\ state = <<>> /\ target_qubits = <<>>
    /\ outer_qubits = PyNone /\ outer_states = PyNone
    /\ matrix_scale = 0 /\ epsilon = 0
    /\ NoCall

\* what a planner leaves alone
PlannerFrame ==
    UNCHANGED <<error, gate, target_qubit, control_qubits, rotation_angles,
                epsilon, i, cnot_gate_ctrl_qubits, backend, gate_ctrl_qubits,
                gate_ctrl_states, grayVars, planner, state, matrix,
                target_qubits, is_real, outer_qubits, outer_states,
                matrix_scale, res_state, res_matrix, routine, vector,
                tree_norms, tree_angles, mode, angles_arg, toolVars>>

\* state_preparation returns, statepreparation.py lines 25-87
StatePreparationReturn ==
    /\ pc = "plan_call" /\ planner = "state_preparation"
    /\ norm_angles' = NormAnglesOf(state, is_real)
    /\ phase_angles' = (IF is_real THEN <<>> ELSE PhaseAnglesOf(state))
    /\ circuit' = state_preparation(state, target_qubits, is_real,
                                    outer_qubits, outer_states)
    /\ temp' = TempAfter(state, is_real, temp)
    /\ pc' = "plan_done"
    /\ PlannerFrame

\* compressed_state_preparation returns, statepreparation.py lines 113-178
CompressedStatePreparationReturn ==
    /\ pc = "plan_call" /\ planner = "compressed_state_preparation"
    /\ ~NormTreeRaises(state, is_real)
    /\ norm_angles' = SlicesTransformed(NormAnglesOf(state, is_real), 1, 1,
                                        FloorLog2(Len(state)))
    /\ phase_angles' = (IF is_real THEN <<>>
                        ELSE SlicesTransformed(PhaseAnglesOf(state), 2, 1,
                                               FloorLog2(Len(state))))
    /\ circuit' = compressed_state_preparation(state, target_qubits, is_real,
                                               epsilon, outer_qubits, outer_states)
    /\ temp' = TempAfter(state, is_real, temp)
    /\ pc' = "plan_done"
    /\ PlannerFrame

\* compressed_state_preparation raises RecursionError in
\* anglecompute.binarytree_vector, statepreparation.py lines 119-124
CompressedStatePreparationRaise ==
    /\ pc = "plan_call" /\ planner = "compressed_state_preparation"
    /\ NormTreeRaises(state, is_real)
    /\ error' = "RecursionError"
    /\ pc' = "plan_raised"
    /\ UNCHANGED <<urVars, grayVars, planVars, treeVars, toolVars>>

\* qcircuit returns, blockencoding.py lines 39-119
QCircuitReturn ==
    /\ pc = "plan_call" /\ planner = "qcircuit"
    /\ norm_angles' = NormTable(matrix, is_real)
    /\ phase_angles' = (IF is_real THEN <<>> ELSE PhaseTable(matrix))
    /\ circuit' = qcircuit(matrix, target_qubits, is_real, outer_qubits, outer_states)
    /\ temp' = TempAfter(Column(matrix, Len(matrix[1])), is_real, temp)
    /\ pc' = "plan_done"
    /\ PlannerFrame

\* compress_qcircuit returns, blockencoding.py lines 138-224
CompressQCircuitReturn ==
    /\ pc = "plan_call" /\ planner = "compress_qcircuit"
    /\ ~(/\ outer_qubits.t # "none"
         /\ State0Raises(AsQubitList(outer_qubits), StatesIfNotList(outer_states)))
    /\ norm_angles' = NormTable(matrix, is_real)
    /\ phase_angles' = (IF is_real THEN <<>> ELSE PhaseTable(matrix))
    /\ circuit' = compress_qcircuit(matrix, target_qubits, is_real, epsilon,
                                    outer_qubits, outer_states)
    /\ temp' = TempAfter(Column(matrix, Len(matrix[1])), is_real, temp)
    /\ pc' = "plan_done"
    /\ PlannerFrame

\* compress_qcircuit raises IndexError at line 215, blockencoding.py
CompressQCircuitRaise ==
    /\ pc = "plan_call" /\ planner = "compress_qcircuit"
    /\ outer_qubits.t # "none"
    /\ State0Raises(AsQubitList(outer_qubits), StatesIfNotList(outer_states))
    /\ error' = "IndexError"
    /\ norm_angles' = NormTable(matrix, is_real)
    /\ phase_angles' = (IF is_real THEN <<>> ELSE PhaseTable(matrix))
    /\ temp' = TempAfter(Column(matrix, Len(matrix[1])), is_real, temp)
    /\ pc' = "plan_raised"
    /\ UNCHANGED <<gate, target_qubit, control_qubits, rotation_angles,
                   epsilon, i, cnot_gate_ctrl_qubits, circuit, backend,
                   gate_ctrl_qubits, gate_ctrl_states, grayVars, planner, state,
                   matrix, target_qubits, is_real, outer_qubits, outer_states,
                   matrix_scale, res_state, res_matrix, routine, vector,
                   tree_norms, tree_angles, mode, angles_arg, toolVars>>

\* the state-preparation test reads the prepared state back:
\* unitary = circuit.matrix(); res_state = get_prepared_state(unitary), for a
\* circuit planned on list(range(n)) with epsilon = 0 and no outer control
PreparedStateRead ==
    /\ pc = "plan_done" /\ epsilon = 0
    /\ planner \in {"state_preparation", "compressed_state_preparation"}
    /\ target_qubits = RangeList(Len(target_qubits))
    /\ outer_qubits = PyNone
    /\ res_state' = get_prepared_state(circuit, Len(target_qubits))
    /\ pc' = "read_done"
    /\ UNCHANGED <<error, toolVars,
                   urVars, grayVars, planner, state, matrix, target_qubits,
                   is_real, outer_qubits, outer_states, norm_angles,
                   phase_angles, matrix_scale, res_matrix, treeVars>>

\* the block-encoding test reads the encoded block back:
\* unitary = circuit.matrix(); res_matrix = get_encoded_matrix(unitary, n),
\* for a circuit compress_qcircuit planned on list(range(2 * n)) with
\* epsilon = 0 and no outer control
EncodedMatrixRead ==
    /\ pc = "plan_done" /\ epsilon = 0
    /\ planner = "compress_qcircuit"
    /\ target_qubits = RangeList(Len(target_qubits))
    /\ outer_qubits = PyNone
    /\ res_matrix' = get_encoded_matrix(circuit, FloorLog2(Len(matrix)))
    /\ pc' = "read_done"
    /\ UNCHANGED <<error, toolVars,
                   urVars, grayVars, planner, state, matrix, target_qubits,
                   is_real, outer_qubits, outer_states, norm_angles,
                   phase_angles, matrix_scale, res_state, treeVars>>

\* angle_search_binary_tree returns, anglecompute.py lines 20-33
AngleSearchReturn ==
    /\ pc = "tree_call" /\ routine = "angle_search_binary_tree"
    /\ ~angle_search_binary_tree(vector).err
    /\ tree_norms' = angle_search_binary_tree(vector).norms
    /\ tree_angles' = angle_search_binary_tree(vector).angles
    /\ pc' = "tree_done"
    /\ UNCHANGED <<error, urVars, grayVars, planVars, routine, vector,
                   mode, temp, angles_arg, toolVars>>

\* angle_search_binary_tree raises RecursionError: the halves of lines 28-29
\* never get the length 2
AngleSearchRaise ==
    /\ pc = "tree_call" /\ routine = "angle_search_binary_tree"
    /\ angle_search_binary_tree(vector).err
    /\ error' = "RecursionError"
    /\ pc' = "tree_raised"
    /\ UNCHANGED <<urVars, grayVars, planVars, treeVars, toolVars>>

\* positive_transform returns, anglecompute.py lines 38-51
PositiveTransformReturn ==
    /\ pc = "tree_call" /\ routine = "positive_transform"
    /\ tree_norms' = positive_transform(vector).norms
    /\ tree_angles' = positive_transform(vector).angles
    /\ pc' = "tree_done"
    /\ UNCHANGED <<error, urVars, grayVars, planVars, routine, vector,
                   mode, temp, angles_arg, toolVars>>

\* binarytree_vector(vector, 'norm', is_real) returns, anglecompute.py lines
\* 77-89
BinarytreeVectorReturn ==
    /\ pc = "tree_call" /\ routine = "binarytree_vector" /\ mode = "norm"
    /\ ~binarytree_vector_norm(vector, is_real).err
    /\ tree_norms' = <<>>
    /\ tree_angles' = binarytree_vector_norm(vector, is_real).angles
    /\ pc' = "tree_done"
    /\ UNCHANGED <<error, urVars, grayVars, planVars, routine, vector,
                   mode, temp, angles_arg, toolVars>>

\* binarytree_vector(vector, 'phase') returns, anglecompute.py lines 91-101
BinarytreeVectorPhaseReturn ==
    /\ pc = "tree_call" /\ routine = "binarytree_vector" /\ mode = "phase"
    /\ ~binarytree_vector_phase(vector, temp).err
    /\ tree_norms' = <<>>
    /\ tree_angles' = binarytree_vector_phase(vector, temp).vector
    /\ temp' = binarytree_vector_phase(vector, temp).temp
    /\ pc' = "tree_done"
    /\ UNCHANGED <<error, urVars, grayVars, planVars, routine, vector,
                   mode, angles_arg, toolVars>>

\* binarytree_vector(vector, 'norm', is_real) raises RecursionError: the
\* recursion of angle_search_binary_tree does not end (lines 28-29)
BinarytreeVectorRaise ==
    /\ pc = "tree_call" /\ routine = "binarytree_vector" /\ mode = "norm"
    /\ binarytree_vector_norm(vector, is_real).err
    /\ error' = "RecursionError"
    /\ pc' = "tree_raised"
    /\ UNCHANGED <<urVars, grayVars, planVars, treeVars, toolVars>>

\* binarytree_vector(vector, 'phase') raises NameError: line 100 reads the
\* global temp, which no call has set
BinarytreeVectorPhaseRaise ==
    /\ pc = "tree_call" /\ routine = "binarytree_vector" /\ mode = "phase"
    /\ binarytree_vector_phase(vector, temp).err
    /\ error' = "NameError"
    /\ pc' = "tree_raised"
    /\ UNCHANGED <<urVars, grayVars, planVars, treeVars, toolVars>>

\* the process calls binarytree_vector(vector, 'phase') again, after a call
\* that returned or raised; the module global temp stays as that call left it
BinarytreeVectorCall ==
    /\ pc \in {"tree_done", "tree_raised"}
    /\ routine = "binarytree_vector" /\ mode = "phase"
    /\ \E n \in 0..MaxN : vector' \in [1..Pow2(n) -> SessionPhases]
    /\ tree_norms' = <<>> /\ tree_angles' = <<>>
    /\ error' = "none"
    /\ pc' = "tree_call"
    /\ UNCHANGED <<urVars, grayVars, planVars, routine, mode, temp,
                   angles_arg, toolVars>>

\* uniformly_rotation_angles returns, anglecompute.py lines 169-172: the
\* reshape of line 169 is a view of the caller's array, sfwht (tools.py lines
\* 121-122) writes into it and returns it, gray_permutation builds a new array
UniformlyRotationAnglesReturn ==
    /\ pc = "tree_call" /\ routine = "uniformly_rotation_angles"
    /\ angles_arg' = sfwht(angles_arg)
    /\ tree_angles' = uniformly_rotation_angles(angles_arg)
    /\ pc' = "tree_done"
    /\ UNCHANGED <<error, urVars, grayVars, planVars, routine, vector,
                   tree_norms, mode, temp, toolVars>>

\* binary_list returns, ble/tools.py lines 165-171
BinaryListReturn ==
    /\ pc = "tool_call" /\ routine = "binary_list"
    /\ num_binary' = binary_list(num_arg, length)
    /\ pc' = "tool_done"
    /\ UNCHANGED <<error, urVars, grayVars, planVars, treeVars,
                   num_arg, arr_arg, new_arr>>

\* reverse_index_bits returns, ble/tools.py lines 224-228: every dimension is
\* copied into a new array (line 207), the caller's array is only read
ReverseIndexBitsReturn ==
    /\ pc = "tool_call" /\ routine = "reverse_index_bits"
    /\ new_arr' = reverse_index_bits_array(arr_arg)
    /\ pc' = "tool_done"
    /\ UNCHANGED <<error, urVars, grayVars, planVars, treeVars,
                   num_arg, num_binary, arr_arg>>

\* rotation_angles_matrix returns, anglecompute.py lines 125-150: the norm
\* table and, for a complex matrix, the phase table
RotationAnglesMatrixReturn ==
    /\ pc = "tree_call" /\ routine = "rotation_angles_matrix"
    /\ norm_angles' = NormTable(matrix, is_real)
    /\ phase_angles' = (IF is_real THEN <<>> ELSE PhaseTable(matrix))
    /\ temp' = TempAfter(Column(matrix, Len(matrix[1])), is_real, temp)
    /\ pc' = "tree_done"
    /\ UNCHANGED <<error, urVars, grayVars, planner, state, matrix,
                   target_qubits, is_real, outer_qubits, outer_states,
                   matrix_scale, res_state, res_matrix, routine, vector,
                   tree_norms, tree_angles, mode, angles_arg, toolVars>>

NextUR == URLoopStep \/ URFinish
SpecUR == InitUR /\ [][NextUR]_vars

\* the rotation compiler called with outer controls
NextURCtrl == URLoopStep \/ URFinish \/ URFinishRaise
SpecURCtrl == InitURCtrl /\ [][NextURCtrl]_vars

\* the rotation compiler called with any number of controls and any gate
NextURAny == URLoopStep \/ URFinish \/ URLoopRaise \/ URFinishRaise
SpecURAny == InitURAny /\ [][NextURAny]_vars

\* qgate and the rotation compiler, for any gate kind
NextGate == QGateReturn \/ QGateRaise \/ NextURAny
SpecGate == (InitQGate \/ InitURAny) /\ [][NextGate]_vars

\* the calls that take control qubits and control states
NextCtrl ==
    \/ QGateReturn \/ QGateRaise
    \/ NextURCtrl
    \/ CompressQCircuitReturn \/ CompressQCircuitRaise
SpecCtrl == (InitQGate \/ InitURCtrl \/ InitBlockCtrl) /\ [][NextCtrl]_vars

NextGray == GrayReturn
SpecGray == InitGray /\ [][NextGray]_vars

NextStatePrep ==
    StatePreparationReturn \/ CompressedStatePreparationReturn \/ PreparedStateRead
SpecStatePrep == InitStatePrep /\ [][NextStatePrep]_vars

NextBlock == QCircuitReturn \/ CompressQCircuitReturn \/ EncodedMatrixRead
SpecBlock == InitBlock /\ [][NextBlock]_vars

\* compress_qcircuit on lists of 2n target qubits and longer ones
NextPrep == CompressQCircuitReturn
SpecPrep == InitPrep /\ [][NextPrep]_vars

\* the four planners
NextPlan ==
    \/ StatePreparationReturn \/ CompressedStatePreparationReturn
    \/ QCircuitReturn \/ CompressQCircuitReturn
SpecPlan == (InitStatePrep \/ InitBlock) /\ [][NextPlan]_vars

\* the rotation compiler and the planners built on it
NextCompress == NextUR \/ NextPlan
SpecCompress == (InitUR \/ InitStatePrep \/ InitBlock) /\ [][NextCompress]_vars

\* the calls with a vector or a state whose length is no power of two
NextDim ==
    \/ BinarytreeVectorReturn \/ BinarytreeVectorPhaseReturn
    \/ BinarytreeVectorRaise
    \/ CompressedStatePreparationReturn \/ CompressedStatePreparationRaise
SpecDim == (InitTreeDim \/ InitStatePrepDim) /\ [][NextDim]_vars

\* the norm tree for every length 2^n
NextTreeLen ==
    \/ AngleSearchReturn \/ AngleSearchRaise
    \/ BinarytreeVectorReturn \/ BinarytreeVectorRaise
SpecTreeLen == InitTreeLen /\ [][NextTreeLen]_vars

\* the phase tree
NextPhase == BinarytreeVectorPhaseReturn
SpecPhase == InitPhase /\ [][NextPhase]_vars

\* the phase-tree calls of one process
NextSession ==
    BinarytreeVectorPhaseReturn \/ BinarytreeVectorPhaseRaise \/ BinarytreeVectorCall
SpecSession == InitSession /\ [][NextSession]_vars

\* the transform of an angle array, alone and inside
\* compressed_state_preparation
NextTransform == UniformlyRotationAnglesReturn \/ CompressedStatePreparationReturn
SpecTransform == (InitTransform \/ InitStatePrep) /\ [][NextTransform]_vars

\* binary_list
NextBinaryList == BinaryListReturn
SpecBinaryList == InitBinaryList /\ [][NextBinaryList]_vars

\* reverse_index_bits
NextReverse == ReverseIndexBitsReturn
SpecReverse == InitReverse /\ [][NextReverse]_vars

NextTree == AngleSearchReturn \/ PositiveTransformReturn \/ BinarytreeVectorReturn
SpecTree == InitTree /\ [][NextTree]_vars

\* the angle trees and the angle tables
NextLayout == NextTree \/ NextPhase \/ RotationAnglesMatrixReturn
SpecLayout == (InitTree \/ InitPhase \/ InitTable) /\ [][NextLayout]_vars

\* ------------------------------------------------------------------ claims
\* A call the contract of compress_uniformly_rotation covers: k >= 1 controls
\* and 2^k angles.
URValidCall ==
    /\ Len(control_qubits) >= 1
    /\ Len(rotation_angles) = Pow2(Len(control_qubits))
    /\ gate \in RotationGates

\* the indices whose angle is kept
KeptIndices(angles, eps) == {j \in 1..Len(angles) : Abs(angles[j]) > eps}

NumKept == Cardinality(KeptIndices(rotation_angles, epsilon))

\* C1 as the spec states it: with m angles above epsilon the returned circuit
\* holds at most m rotations and at most m + 1 CNOTs.
C1_AsStated ==
    (pc = "ur_done" /\ URValidCall) =>
        /\ NumRotations(circuit) <= NumKept
        /\ NumCNOTs(circuit) <= NumKept + 1

\* C1 amended: with k controls and m angles above epsilon the returned circuit
\* holds at most m rotations, at most k * (m + 1) CNOTs (each of the m + 1
\* flushes emits at most one CNOT per control) and never more than 2^k CNOTs.
C1_CnotBound ==
    (pc = "ur_done" /\ URValidCall) =>
        /\ NumRotations(circuit) <= NumKept
        /\ NumCNOTs(circuit) <= Len(control_qubits) * (NumKept + 1)
        /\ NumCNOTs(circuit) <= Len(rotation_angles)

\* a single kept angle between two flushes of two CNOTs each
C1_Witness ==
    /\ pc = "ur_done" /\ URValidCall
    /\ Len(control_qubits) = 2 /\ NumKept = 1
    /\ NumCNOTs(circuit) = 4

\* the gates of a circuit that have no control qubit, in order
Uncontrolled(circ) == SelectSeq(circ, LAMBDA gt : gt.ctrl = <<>>)

RECURSIVE KeptRotations(_, _, _, _, _)
\* one rotation of axis g on target per kept index below upto, by index
KeptRotations(g, target, angles, eps, upto) ==
    IF upto = 0 THEN <<>>
    ELSE LET before == KeptRotations(g, target, angles, eps, upto - 1)
         IN  IF Abs(angles[upto]) > eps
             THEN Append(before, Gate(g, <<target>>, <<>>, angles[upto]))
             ELSE before

\* C3: the uncontrolled gates emitted so far are exactly one rotation of the
\* requested axis on the target, with angle angle[j], for each kept index j
\* already visited, in increasing index order; nothing for an elided index.
C3_OneRotationPerKeptAngle ==
    (pc \in {"ur_loop", "ur_done"} /\ URValidCall) =>
        Uncontrolled(circuit)
            = KeptRotations(gate, target_qubit, rotation_angles, epsilon, i)

C3_Witness ==
    /\ pc = "ur_done" /\ URValidCall
    /\ Len(rotation_angles) = 4
    /\ rotation_angles[1] = -1 /\ rotation_angles[2] = 0 /\ rotation_angles[3] = 2
    /\ epsilon = 0
    /\ Len(Uncontrolled(circuit)) >= 2

\* C4: when no angle is above epsilon the returned circuit has no gate.
C4_AllElidedEmpty ==
    (pc = "ur_done" /\ URValidCall /\ NumKept = 0) => circuit = <<>>

C4_Witness ==
    /\ pc = "ur_done" /\ URValidCall /\ NumKept = 0
    /\ Len(control_qubits) = 2
    /\ \E j \in 1..Len(rotation_angles) : rotation_angles[j] # 0

\* the bit positions below len at which x and y differ
DifferingBits(x, y, len) == {p \in 0..(len - 1) : Bit(x, p) # Bit(y, p)}

\* C5: the Gray codes of i and i + 1 differ in exactly one of their length
\* bits, and the index returned is the position of that bit counted from the
\* most significant one, inside [0, length).
C5_Adjacency ==
    (pc = "gray_done") =>
        LET d == DifferingBits(gray_code(number1), gray_code(number2), length + 1)
        IN  /\ Cardinality(d) = 1
            /\ index \in 0..(length - 1)
            /\ d = {length - 1 - index}

C5_Witness ==
    /\ pc = "gray_done" /\ length = 3 /\ number1 = 3 /\ index = 0

\* the rotations and the controlled X gates of a circuit
NumGates(circ) ==
    Cardinality({j \in 1..Len(circ) :
                    \/ circ[j].name \in RotationGates
                    \/ circ[j].name = "X" /\ circ[j].ctrl # <<>>})

\* the thresholds a gate count is compared at
URThresholds == 0..(MaxEps + 1)
PlannerThresholds == PlannerEps \cup {PI, 4 * PI}

\* C2: the circuit compiled with a threshold at least epsilon never has more
\* rotations plus CNOTs than the one compiled with epsilon, for
\* compress_uniformly_rotation, compressed_state_preparation and
\* compress_qcircuit on the same input.
C2_Monotone ==
    /\ (pc = "ur_done" /\ URValidCall) =>
          \A e2 \in URThresholds :
             e2 >= epsilon =>
                NumGates(compress_uniformly_rotation(
                             gate, target_qubit, control_qubits,
                             rotation_angles, e2)) <= NumGates(circuit)
    /\ (pc = "plan_done" /\ planner = "compressed_state_preparation") =>
          \A e2 \in PlannerThresholds :
             e2 >= epsilon =>
                NumGates(compressed_state_preparation(
                             state, target_qubits, is_real, e2,
                             outer_qubits, outer_states)) <= NumGates(circuit)
    /\ (pc = "plan_done" /\ planner = "compress_qcircuit") =>
          \A e2 \in PlannerThresholds :
             e2 >= epsilon =>
                NumGates(compress_qcircuit(
                             matrix, target_qubits, is_real, e2,
                             outer_qubits, outer_states)) <= NumGates(circuit)

\* a block encoding that loses some of its gates at the next threshold, not
\* all of them
C2_Witness ==
    /\ pc = "plan_done" /\ planner = "compress_qcircuit"
    /\ epsilon = PI \div 4
    /\ LET more == NumGates(compress_qcircuit(matrix, target_qubits, is_real,
                                              PI \div 2, outer_qubits, outer_states))
       IN  0 < more /\ more < NumGates(circuit)

\* the amplitudes of a state of weights amps[j].w and phases amps[j].ph, each
\* modulus divided by sqrt(2^scale)
Scaled(amps, scale) ==
    [j \in 1..Len(amps) |-> Amp(amps[j].w, scale, 2 * amps[j].ph)]

\* a normalised vector: the modulus of entry j is sqrt(w[j] / sum of w)
Normalised(st) == Scaled(st, FloorLog2(SumWeights(st)))

\* C6: what the test reads back from the circuit compressed_state_preparation
\* plans with epsilon = 0 for a normalised real or complex vector is that
\* vector, phase included.
C6_RoundTrip ==
    (pc = "read_done" /\ planner = "compressed_state_preparation" /\ epsilon = 0)
        => res_state = Normalised(state)

\* a complex vector of four non-zero entries with three different phases
C6_Witness ==
    /\ pc = "read_done" /\ planner = "compressed_state_preparation"
    /\ epsilon = 0 /\ ~is_real /\ Len(state) = 4
    /\ \A j \in 1..4 : state[j].w = 1
    /\ state[2].ph = PI \div 2 /\ state[3].ph = PI /\ state[4].ph = 0
    /\ res_state[2] = [w |-> 1, e |-> 2, ph |-> PI]

\* the rows of a matrix at a scale
ScaledMatrix(m, scale) == [r \in 1..Len(m) |-> Scaled(m[r], scale)]

\* the matrix of the size of m with a single 1, at the top left
TopLeftOne(m) ==
    [r \in 1..Len(m) |-> [c \in 1..Len(m) |->
        IF r = 1 /\ c = 1 THEN OneAmp ELSE ZeroAmp]]

\* C7 as the spec states it: for a matrix of Frobenius norm at most 1 the
\* block read back from the circuit compress_qcircuit plans with epsilon = 0 is
\* the matrix.
C7_AsStated ==
    (pc = "read_done" /\ planner = "compress_qcircuit" /\ epsilon = 0)
        => res_matrix = ScaledMatrix(matrix, matrix_scale)

\* C7 amended: the block read back is the matrix divided by its Frobenius
\* norm, whatever that norm is (the matrix itself when the norm is 1); for
\* the zero matrix it is the matrix with a single 1 at the top left.
C7_EncodesNormalised ==
    (pc = "read_done" /\ planner = "compress_qcircuit" /\ epsilon = 0)
        => res_matrix = (IF FrobeniusWeight(matrix) = 0 THEN TopLeftOne(matrix)
                         ELSE ScaledMatrix(matrix, UnitScale(matrix)))

\* a complex matrix of four rows, of Frobenius norm 1, with entries of
\* different phases
C7_Witness ==
    /\ pc = "read_done" /\ planner = "compress_qcircuit" /\ epsilon = 0
    /\ ~is_real /\ Len(matrix) = 4
    /\ matrix_scale = UnitScale(matrix)
    /\ matrix[1][1].w = 1 /\ matrix[1][1].ph = PI \div 2
    /\ matrix[3][1].w = 1 /\ matrix[3][1].ph = PI
    /\ matrix[2][2].w = 1 /\ matrix[2][2].ph = 0 - (PI \div 2)
    /\ res_matrix[1][1].w = 1 /\ res_matrix[1][1].ph = PI
    /\ res_matrix[2][2].w = 1 /\ res_matrix[2][2].ph = 3 * PI

\* the real vector [1, 0, ..., 0]
IsFirstBasisVector(st) ==
    /\ st[1] = [w |-> 1, ph |-> 0]
    /\ \A j \in 2..Len(st) : st[j].w = 0

\* C8: for the real vector [1, 0, ..., 0] of length 2^n the norm tree is 2^n - 1
\* zeros and compressed_state_preparation with epsilon = 0 returns no gate.
C8_BasisState ==
    (/\ pc = "plan_done" /\ planner = "compressed_state_preparation"
     /\ is_real /\ IsFirstBasisVector(state)
     /\ epsilon = 0 /\ outer_qubits = PyNone)
        => /\ norm_angles = [j \in 1..(Len(state) - 1) |-> 0]
           /\ binarytree_vector_norm(SignedWeights(state), TRUE).angles
                 = [j \in 1..(Len(state) - 1) |-> 0]
           /\ circuit = <<>>

\* the scenario of the spec: [1, 0, 0, 0]
C8_Witness ==
    /\ pc = "plan_done" /\ planner = "compressed_state_preparation"
    /\ is_real /\ IsFirstBasisVector(state) /\ Len(state) = 4
    /\ epsilon = 0 /\ outer_qubits = PyNone
    /\ Len(norm_angles) = 3

\* the entries of the vector under node idx (from 0) of level lev (0 the
\* root) of the tree are all 0
ZeroBelow(v, lev, idx) ==
    \A j \in 1..Len(v) :
        (j - 1) \div (Len(v) \div Pow2(lev)) = idx => v[j] = 0

\* C9: a pair of two zeros gets norm 0 and angle 0 from
\* angle_search_binary_tree and from positive_transform, no angle is ever
\* undefined, and in the tree of binarytree_vector every node with nothing but
\* zeros below it has angle 0, so that the zero vector gives the zero tree.
C9_ZeroAngle ==
    (pc = "tree_done") =>
        /\ \A j \in 1..Len(tree_angles) :
              tree_angles[j] # NaN /\ tree_angles[j] # 2 * NaN
        /\ routine \in {"angle_search_binary_tree", "positive_transform"} =>
              /\ Len(tree_norms) = Len(vector) \div 2
              /\ Len(tree_angles) = Len(vector) \div 2
              /\ \A j \in 1..(Len(vector) \div 2) :
                    (vector[2 * j - 1] = 0 /\ vector[2 * j] = 0) =>
                        tree_norms[j] = 0 /\ tree_angles[j] = 0
        /\ routine = "binarytree_vector" =>
              /\ Len(tree_angles) = Len(vector) - 1
              /\ \A lev \in 0..(FloorLog2(Len(vector)) - 1) :
                    \A idx \in 0..(Pow2(lev) - 1) :
                        ZeroBelow(vector, lev, idx) =>
                            tree_angles[Pow2(lev) + idx] = 0

\* the zero vector of length 4 through binarytree_vector
C9_Witness ==
    /\ pc = "tree_done" /\ routine = "binarytree_vector" /\ ~is_real
    /\ vector = <<0, 0, 0, 0>>
    /\ tree_angles = <<0, 0, 0>>

\* the circuit a planner assembles before the outer conditioning
Assembled ==
    CASE planner = "state_preparation" ->
            StateCircuit(state, target_qubits, is_real)
      [] planner = "compressed_state_preparation" ->
            CompressedStateCircuit(state, target_qubits, is_real, epsilon)
      [] planner = "qcircuit" -> QCircuit(matrix, target_qubits, is_real)
      [] planner = "compress_qcircuit" ->
            CompressQCircuit(matrix, target_qubits, is_real, epsilon)

\* C10 as the spec states it: called with outer control qubits and a list of
\* required states, each of the four planners returns an X on every outer
\* control required to be 0, the assembled circuit controlled on all the outer
\* controls, and the same X gates again.
C10_AsStated ==
    (pc = "plan_done" /\ outer_qubits.t = "list" /\ outer_states.t = "list") =>
        LET zeros == QubitsState0(outer_qubits.l,
                                  [j \in 1..Len(outer_states.l) |->
                                      PyInt(outer_states.l[j])], 1)
        IN  circuit = (XGates(zeros) \o Controlled(Assembled, outer_qubits.l))
                      \o XGates(zeros)

\* compressed_state_preparation with control_qubits [7] and control_states
\* [0]: the circuit returned has no X on qubit 7
C10_Witness ==
    /\ pc = "plan_done" /\ planner = "compressed_state_preparation"
    /\ outer_qubits = PyList(<<7>>) /\ outer_states = PyList(<<0>>)
    /\ circuit # <<>>
    /\ \A j \in 1..Len(circuit) : circuit[j].name # "X"

\* the outer controls as lists: as many states as qubits
GateCtrlMatched ==
    /\ gate_ctrl_qubits.t # "none"
    /\ Len(AsQubitList(gate_ctrl_qubits)) = Len(StatesIfNotList(gate_ctrl_states))

\* the sequence compiled from the arguments of the call, no outer control
Compiled ==
    compress_uniformly_rotation(gate, target_qubit, control_qubits,
                                rotation_angles, epsilon)

\* C11 as the spec states it: given gate_ctrl_qubits and gate_ctrl_states,
\* compress_uniformly_rotation returns, in the mindquantum and in the qpanda
\* package alike, an X on every outer control required to be 0, the compiled
\* sequence with every gate controlled on the qubits of gate_ctrl_qubits, and
\* the same X gates again.
C11_AsStated ==
    (pc = "ur_done" /\ GateCtrlMatched) =>
        LET qubits == AsQubitList(gate_ctrl_qubits)
            zeros == QubitsState0(qubits, StatesIfNotList(gate_ctrl_states), 1)
        IN  circuit = (XGates(zeros) \o Controlled(Compiled, qubits)) \o XGates(zeros)

\* mindquantum, gate_ctrl_qubits [7] and gate_ctrl_states [1]: every gate
\* returned is controlled on qubit 1, none on qubit 7
C11_Witness ==
    /\ pc = "ur_done" /\ backend = "mindquantum"
    /\ gate_ctrl_qubits = PyList(<<7>>) /\ gate_ctrl_states = PyList(<<1>>)
    /\ circuit # <<>>
    /\ \A j \in 1..Len(circuit) :
          InList(circuit[j].ctrl, 1) /\ ~InList(circuit[j].ctrl, 7)

\* a power of two
IsPow2(x) == x >= 1 /\ Pow2(FloorLog2(x)) = x

\* C12 as the spec states it: a call of binarytree_vector or of a planner
\* with a vector whose length is no power of two ends with an error and
\* returns neither an angle array nor a circuit.
C12_AsStated ==
    /\ (pc = "tree_done" /\ routine = "binarytree_vector") => IsPow2(Len(vector))
    /\ (pc = "plan_done" /\ planner = "compressed_state_preparation")
          => IsPow2(Len(state))
    /\ (pc \in {"tree_raised", "plan_raised"}) => error # "none"

\* binarytree_vector([1, 0, 0], 'norm', True) returns the one angle 0
C12_Witness ==
    /\ pc = "tree_done" /\ routine = "binarytree_vector"
    /\ mode = "norm" /\ is_real
    /\ vector = <<1, 0, 0>>
    /\ tree_angles = <<0>> /\ error = "none"

\* as many angles as the controls address
DimValid == Len(rotation_angles) = Pow2(Len(control_qubits))

\* the indices of cnot_gate_ctrl_qubits are indices of control_qubits
OpenInRange ==
    \A j \in 1..Len(cnot_gate_ctrl_qubits) :
        cnot_gate_ctrl_qubits[j] \in 0..(Len(control_qubits) - 1)

\* C13 as the spec states it: a call of compress_uniformly_rotation whose
\* number of controls differs from log2 of the number of angles ends with an
\* error, returns no circuit, and no flush reads control_qubits at an index
\* outside [0, k).
C13_AsStated ==
    /\ (pc = "ur_done") => DimValid
    /\ (pc = "ur_raised") => error # "none"
    /\ (/\ pc = "ur_loop" /\ i < Len(rotation_angles)
        /\ Kept(rotation_angles[i + 1], epsilon)
        /\ ~FlushRaises(control_qubits, cnot_gate_ctrl_qubits)) => OpenInRange

\* one control and four angles: the circuit is returned, with the two CNOTs
\* of the flush before the second rotation, one of them selected by index -1
C13_Witness ==
    /\ pc = "ur_done" /\ error = "none" /\ gate = "RY"
    /\ control_qubits = <<0>> /\ rotation_angles = <<1, 0, 1, 0>>
    /\ epsilon = 0
    /\ circuit[2] = CNOT(1, 0) /\ circuit[3] = CNOT(1, 0)

\* the control qubits and control states of a call of qgate are as many
ControlsMatched ==
    outer_qubits.t # "none" =>
        Len(AsQubitList(outer_qubits)) = Len(StatesIfNotList(outer_states))

\* C14 as the spec states it: a call of qgate, with or without control
\* qubits, and a call of compress_uniformly_rotation, whatever the angles and
\* epsilon, with a gate kind outside the supported set raises ValueError; it
\* never returns.
C14_AsStated ==
    /\ (pc = "qgate_done") => gate \in SupportedGates
    /\ (pc = "qgate_raised" /\ ControlsMatched /\ gate \notin SupportedGates)
          => error = "ValueError"
    /\ (pc = "ur_done" /\ DimValid) => gate \in SupportedGates
    /\ (pc = "ur_raised" /\ DimValid /\ gate \notin SupportedGates)
          => error = "ValueError"

\* an unsupported gate, two controls, four angles none of which is above
\* epsilon = 1: the empty circuit is returned
C14_Witness ==
    /\ pc = "ur_done" /\ error = "none"
    /\ gate \in UnsupportedGates
    /\ Len(control_qubits) = 2 /\ rotation_angles = <<1, 0, 0, 1>>
    /\ epsilon = 1
    /\ circuit = <<>>

\* C15 as the spec states it: a call of qgate, of compress_uniformly_rotation
\* or of a planner whose list of control qubits and list of control states
\* have different lengths ends with an error, whichever list is the longer.
C15_AsStated ==
    /\ (pc \in {"qgate_done", "plan_done"}) => ControlsMatched
    /\ (pc = "ur_done" /\ gate_ctrl_qubits.t # "none") => GateCtrlMatched
    /\ (pc \in {"qgate_raised", "plan_raised", "ur_raised"}) => error # "none"

\* qgate with control qubits [7, 8] and control states [0] returns: X on 7,
\* the gate controlled on 7 and 8, X on 7
C15_Witness ==
    /\ pc = "qgate_done" /\ error = "none" /\ gate = "RY"
    /\ outer_qubits = PyList(<<7, 8>>) /\ outer_states = PyList(<<0>>)
    /\ Len(circuit) = 3
    /\ circuit[1] = Gate("X", <<7>>, <<>>, 0)
    /\ circuit[2].ctrl = <<7, 8>>

\* C16: for 2^n phases, n >= 1, binarytree_vector(phases, 'phase') returns
\* the product of phase_angle_matrix_inverse(2^n) and the phases, entry by
\* entry and exactly: first the root term, minus the sum of the phases over
\* 2^(n-1), then for each layer l = 0..n-1 the 2^l differences of the means of
\* the two halves of its blocks.
C16_PhaseTree ==
    (pc = "tree_done" /\ routine = "binarytree_vector" /\ mode = "phase"
     /\ IsPow2(Len(vector)) /\ Len(vector) >= 2) =>
        LET N == Len(vector)
            ref == phase_angle_matrix_inverse(N)
        IN  /\ Len(tree_angles) = N /\ Len(ref) = N
            /\ \A r \in 1..N : N * tree_angles[r] = Dot(ref[r], vector)
            /\ (N \div 2) * tree_angles[1] = 0 - Dot([c \in 1..N |-> 1], vector)
            /\ \A l \in 0..(FloorLog2(N) - 1) :
                  \A b \in 0..(Pow2(l) - 1) :
                     LET w == N \div Pow2(l + 1)
                         lo == [c \in 1..N |-> IF (c - 1) \div w = 2 * b THEN 1 ELSE 0]
                         hi == [c \in 1..N |-> IF (c - 1) \div w = 2 * b + 1 THEN 1 ELSE 0]
                     IN  w * tree_angles[Pow2(l) + b + 1]
                            = Dot(hi, vector) - Dot(lo, vector)

\* four phases: the root term is minus half their sum
C16_Witness ==
    /\ pc = "tree_done" /\ routine = "binarytree_vector" /\ mode = "phase"
    /\ vector = <<0, PI \div 2, PI, PI>>
    /\ tree_angles = <<0 - 5 * (PI \div 4), 3 * (PI \div 4), PI \div 2, 0>>

\* C17: binarytree_vector shares no state across invocations: whatever calls
\* were made before, a phase-mode call on 2^n entries, n >= 0, ends as the
\* same call ends in a process that has called nothing before, with the same
\* returned vector, and it does not read a value an earlier call left behind.
C17_AsStated ==
    (routine = "binarytree_vector" /\ mode = "phase") =>
        LET first == binarytree_vector_phase(vector, Unset)
        IN  /\ pc = "tree_done" => (~first.err /\ tree_angles = first.vector)
            /\ pc = "tree_raised" => first.err

\* a call on one phase that returns minus the sum of the two phases of the
\* call before it
C17_Witness ==
    /\ pc = "tree_done" /\ routine = "binarytree_vector" /\ mode = "phase"
    /\ vector = <<0>>
    /\ temp = <<PI, PI>>
    /\ tree_angles = <<0 - 2 * PI>>

\* C18: uniformly_rotation_angles, and sfwht which it calls, leave the
\* caller's angle array unchanged: after the call the array holds the values
\* it held before, and the angle trees of compressed_state_preparation hold at
\* its return what binarytree_vector computed.
C18_AsStated ==
    /\ (pc = "tree_done" /\ routine = "uniformly_rotation_angles")
          => angles_arg = vector
    /\ (pc = "plan_done" /\ planner = "compressed_state_preparation")
          => /\ norm_angles = NormAnglesOf(state, is_real)
             /\ ~is_real => phase_angles = PhaseAnglesOf(state)

\* the array [pi, 0] holds [pi/2, pi/2] after the call
C18_Witness ==
    /\ pc = "tree_done" /\ routine = "uniformly_rotation_angles"
    /\ vector = <<PI, 0>>
    /\ angles_arg = <<PI \div 2, PI \div 2>>
    /\ tree_angles = <<PI \div 2, PI \div 2>>

\* a tree of compressed_state_preparation that a transform has overwritten
C18_TreeAltered ==
    /\ pc = "plan_done" /\ planner = "compressed_state_preparation"
    /\ norm_angles # NormAnglesOf(state, is_real)

RECURSIVE BinaryValue(_)
\* the number a list of bits stands for, most significant bit first
BinaryValue(bits) ==
    IF bits = <<>> THEN 0
    ELSE 2 * BinaryValue(SubSeq(bits, 1, Len(bits) - 1)) + bits[Len(bits)]

\* C19 as stated: for every length >= 0 and every num >= 0, binary_list
\* returns exactly `length` entries in {0, 1}, most significant bit first,
\* whose binary value is num, and the empty list for length 0.
C19_AsStated ==
    (pc = "tool_done" /\ routine = "binary_list") =>
        /\ Len(num_binary) = length
        /\ \A j \in 1..Len(num_binary) : num_binary[j] \in {0, 1}
        /\ BinaryValue(num_binary) = num_arg
        /\ length = 0 => num_binary = <<>>

\* C19: binary_list(num, length) returns entries in {0, 1}, most significant
\* bit first. For length 0 it returns the empty list, whatever num is. For
\* length >= 1 the binary value of the list is num; the list has exactly
\* `length` entries when num < 2^length, and otherwise it is the binary
\* numeral of num without padding, which has more than `length` entries.
C19_BinaryList ==
    (pc = "tool_done" /\ routine = "binary_list") =>
        /\ \A j \in 1..Len(num_binary) : num_binary[j] \in {0, 1}
        /\ length = 0 => num_binary = <<>>
        /\ length >= 1 => BinaryValue(num_binary) = num_arg
        /\ num_arg < Pow2(length) => Len(num_binary) = length
        /\ (length >= 1 /\ num_arg >= Pow2(length))
              => /\ Len(num_binary) > length
                 /\ num_binary[1] = 1

\* 5 on four bits
C19_Witness ==
    /\ pc = "tool_done" /\ routine = "binary_list"
    /\ num_arg = 5 /\ length = 4
    /\ num_binary = <<0, 1, 0, 1>>

\* the position of an index of n bits after the reversal of its bits
BitReversed(idx, n) ==
    CHOOSE q \in 0..(Pow2(n) - 1) :
        \A p \in 0..(n - 1) : Bit(q, p) = Bit(idx, n - 1 - p)

\* C20: for an array whose dimensions all have size 2^n, reverse_index_bits
\* returns an array of the same shape in which the element at index i along
\* each dimension sits at the index whose n-bit representation is the
\* reverse of that of i; the move is one-to-one, so no element is lost or
\* duplicated; the input array is not modified; applying reverse_index_bits
\* to the result returns the original array.
C20_BitReversal ==
    (pc = "tool_done" /\ routine = "reverse_index_bits") =>
        LET rows == Len(vector.a)
            nr == FloorLog2(rows)
        IN  /\ arr_arg = vector
            /\ new_arr.ndim = vector.ndim
            /\ Len(new_arr.a) = rows
            /\ {BitReversed(x, nr) : x \in 0..(rows - 1)} = 0..(rows - 1)
            /\ IF vector.ndim = 1
               THEN \A x \in 0..(rows - 1) :
                       new_arr.a[BitReversed(x, nr) + 1] = vector.a[x + 1]
               ELSE LET cols == Len(vector.a[1])
                        nc == FloorLog2(cols)
                    IN  /\ \A r \in 1..rows : Len(new_arr.a[r]) = cols
                        /\ {BitReversed(y, nc) : y \in 0..(cols - 1)}
                              = 0..(cols - 1)
                        /\ \A x \in 0..(rows - 1), y \in 0..(cols - 1) :
                              new_arr.a[BitReversed(x, nr) + 1][BitReversed(y, nc) + 1]
                                 = vector.a[x + 1][y + 1]
            /\ reverse_index_bits_array(new_arr) = vector

\* four entries with the one at index 1 (binary 01), which moves to index 2
\* (binary 10)
C20_Witness ==
    /\ pc = "tool_done" /\ routine = "reverse_index_bits"
    /\ arr_arg = [ndim |-> 1, a |-> <<0, 1, 0, 0>>]
    /\ new_arr = [ndim |-> 1, a |-> <<0, 0, 1, 0>>]

\* the number of CNOTs of a circuit that are controlled by qubit q
CNOTsOn(circ, q) ==
    Cardinality({j \in 1..Len(circ) : IsCNOT(circ[j]) /\ circ[j].ctrl = <<q>>})

\* C21: when the rotation for a kept index is emitted, the control positions
\* on which an odd number of CNOTs has been emitted so far are exactly the
\* 1-bits of the Gray code of that index, position 0 being the most
\* significant of the k bits; this holds for every kept/elided pattern.
C21_Parity ==
    (/\ pc = "ur_loop" /\ i >= 1
     /\ Len(rotation_angles) = Pow2(Len(control_qubits))
     /\ Kept(rotation_angles[i], epsilon))
        => LET k == Len(control_qubits)
           IN  /\ circuit # <<>>
               /\ circuit[Len(circuit)]
                     = qgate_plain(gate, target_qubit, rotation_angles[i])
               /\ \A p \in 0..(k - 1) :
                     CNOTsOn(circuit, control_qubits[p + 1]) % 2
                        = Bit(gray_code(i - 1), k - 1 - p)

\* index 2 is kept after index 1 was elided: both controls carry one CNOT
C21_Witness ==
    /\ pc = "ur_loop" /\ i = 3
    /\ control_qubits = <<0, 1>> /\ target_qubit = 2
    /\ rotation_angles = <<2, 0, 2, 0>> /\ epsilon = 0
    /\ circuit = <<qgate_plain("RY", 2, 2), CNOT(2, 1), CNOT(2, 0),
                   qgate_plain("RY", 2, 2)>>

\* C22: for every k >= 1 and every kept/elided pattern, when
\* compress_uniformly_rotation returns the pending open list is empty, every
\* control qubit is the control of an even number of emitted CNOTs, so the
\* number of CNOTs is even, and the open list never holds a control position
\* twice, so no flush emits one twice.
C22_ParityRestored ==
    /\ (pc \in {"ur_loop", "ur_done"}
        /\ Len(rotation_angles) = Pow2(Len(control_qubits)))
          => \A x, y \in 1..Len(cnot_gate_ctrl_qubits) :
                x # y => cnot_gate_ctrl_qubits[x] # cnot_gate_ctrl_qubits[y]
    /\ (pc = "ur_done" /\ gate_ctrl_qubits = PyNone
        /\ Len(rotation_angles) = Pow2(Len(control_qubits)))
          => /\ cnot_gate_ctrl_qubits = <<>>
             /\ \A p \in 1..Len(control_qubits) :
                   CNOTsOn(circuit, control_qubits[p]) % 2 = 0
             /\ NumCNOTs(circuit) % 2 = 0
             /\ NumCNOTs(circuit) + NumRotations(circuit) = Len(circuit)

\* two kept angles out of four: two CNOTs on each control
C22_Witness ==
    /\ pc = "ur_done"
    /\ control_qubits = <<0, 1>> /\ target_qubit = 2
    /\ rotation_angles = <<2, 0, 2, 0>> /\ epsilon = 0
    /\ cnot_gate_ctrl_qubits = <<>>
    /\ CNOTsOn(circuit, 0) = 2 /\ CNOTsOn(circuit, 1) = 2

\* the uncompressed sequence: after the rotation of each index the CNOT of
\* its Gray transition, the last one on control position 0
Alternating(g, target, controls, angles) ==
    LET k == Len(controls)
        N == Len(angles)
        c(idx) == IF idx = N - 1 THEN 0
                  ELSE different_gray_codes_index(idx, idx + 1, k)
    IN  [j \in 1..(2 * N) |->
            IF j % 2 = 1
            THEN Gate(g, <<target>>, <<>>, angles[(j + 1) \div 2])
            ELSE Gate("X", <<target>>, <<controls[c((j \div 2) - 1) + 1]>>, 0)]

\* C23: when every angle is above epsilon compress_uniformly_rotation emits
\* exactly the alternating sequence R(angle[0]), CNOT(c_0), ...,
\* R(angle[2^k - 1]), CNOT(c_last), 2^k rotations and 2^k CNOTs, c_i the
\* control at different_gray_codes_index(i, i + 1, k) and c_last control 0;
\* for any other pattern the number of CNOTs does not exceed 2^k.
C23_Uncompressed ==
    (pc = "ur_done" /\ URValidCall) =>
        /\ NumKept = Len(rotation_angles)
              => /\ circuit = Alternating(gate, target_qubit, control_qubits,
                                          rotation_angles)
                 /\ NumRotations(circuit) = Len(rotation_angles)
                 /\ NumCNOTs(circuit) = Len(rotation_angles)
        /\ NumCNOTs(circuit) <= Len(rotation_angles)

\* four kept angles: eight gates
C23_Witness ==
    /\ pc = "ur_done" /\ URValidCall
    /\ Len(control_qubits) = 2 /\ NumKept = 4
    /\ Len(circuit) = 8
    /\ circuit[8] = CNOT(target_qubit, control_qubits[1])

RECURSIVE PopCount(_)
\* the number of 1-bits of x
PopCount(x) == IF x = 0 THEN 0 ELSE (x % 2) + PopCount(x \div 2)

\* (-1)^popcount(x AND y)
WalshSign(x, y) ==
    IF Cardinality({p \in 0..MaxLength : Bit(x, p) = 1 /\ Bit(y, p) = 1}) % 2 = 0
    THEN 1 ELSE 0 - 1

\* C24: for an angle array x of length 2^k, uniformly_rotation_angles(x) is
\* gray_permutation(sfwht(x)); entry j of it is 2^(-k) times the sum over i
\* of (-1)^popcount(i AND gray_code(j)) * x[i], which is 2^(-k) times
\* mikko_matrix(k) transposed times x; and sfwht alone gives at row m 2^(-k)
\* times the sum of (-1)^popcount(i AND m) * x[i], the result of combining
\* the pairs (x, y) into ((x + y) / 2, (x - y) / 2) with both read before
\* either is written.
C24_TransformReference ==
    (pc = "tree_done" /\ routine = "uniformly_rotation_angles") =>
        LET N == Len(vector)
            k == FloorLog2(N)
            M == mikko_matrix(k)
        IN  /\ Len(tree_angles) = N
            /\ tree_angles = gray_permutation(sfwht(vector))
            /\ \A j \in 0..(N - 1) :
                  /\ N * tree_angles[j + 1]
                        = Dot([r \in 1..N |-> M[r][j + 1]], vector)
                  /\ N * tree_angles[j + 1]
                        = Dot([r \in 1..N |-> WalshSign(r - 1, gray_code(j))],
                              vector)
                  /\ \A r \in 0..(N - 1) :
                        /\ M[r + 1][j + 1] = WalshSign(r, gray_code(j))
                        /\ PopCount(BitAnd(r, gray_code(j))) % 2
                              = (IF M[r + 1][j + 1] = 1 THEN 0 ELSE 1)
            /\ \A m \in 0..(N - 1) :
                  N * sfwht(vector)[m + 1]
                     = Dot([r \in 1..N |-> WalshSign(r - 1, m)], vector)

\* four angles: [pi, 0, pi/2, 0] gives [3pi/8, 3pi/8, pi/8, pi/8]
C24_Witness ==
    /\ pc = "tree_done" /\ routine = "uniformly_rotation_angles"
    /\ vector = <<PI, 0, PI \div 2, 0>>
    /\ tree_angles = <<3 * (PI \div 8), 3 * (PI \div 8), PI \div 8, PI \div 8>>

\* the weight of the entries of v under child side (0 left, 1 right) of node
\* idx (from 0) of layer lev of its tree
ChildWeight(v, lev, idx, side) ==
    LET w == Len(v) \div Pow2(lev + 1)
        RECURSIVE Sum(_)
        Sum(j) == IF j > (2 * idx + side + 1) * w THEN 0 ELSE Abs(v[j]) + Sum(j + 1)
    IN  Sum((2 * idx + side) * w + 1)

\* the angle of node idx of layer lev of the norm tree of v
NodeAngle(v, real, lev, idx) ==
    IF lev = FloorLog2(Len(v)) - 1
    THEN (IF real THEN 2 * PairAngle(v[2 * idx + 1], v[2 * idx + 2])
          ELSE 2 * BaseAngle(v[2 * idx + 1], v[2 * idx + 2]))
    ELSE 2 * BaseAngle(ChildWeight(v, lev, idx, 0), ChildWeight(v, lev, idx, 1))

\* C25: for a vector of length 2^n, n >= 1, binarytree_vector(., 'norm')
\* returns 2^n - 1 angles, the root at index 0 and the 2^l nodes of layer l at
\* the indices 2^l - 1 .. 2^(l+1) - 2, and binarytree_vector(., 'phase')
\* returns 2^n values; rotation_angles_matrix returns a norm table of 2^n - 1
\* rows and 2^n + 1 columns, the last column the tree of the column norms,
\* and for a complex matrix a phase table of 2^n rows and 2^n columns.
C25_Layout ==
    /\ (pc = "tree_done" /\ routine = "binarytree_vector" /\ mode = "norm")
          => /\ Len(tree_angles) = Len(vector) - 1
             /\ \A lev \in 0..(FloorLog2(Len(vector)) - 1) :
                   \A idx \in 0..(Pow2(lev) - 1) :
                      tree_angles[Pow2(lev) + idx]
                         = NodeAngle(vector, is_real, lev, idx)
    /\ (pc = "tree_done" /\ routine = "binarytree_vector" /\ mode = "phase")
          => Len(tree_angles) = Len(vector)
    /\ (pc = "tree_done" /\ routine = "rotation_angles_matrix")
          => LET N == Len(matrix)
             IN  /\ Len(norm_angles) = N + 1
                 /\ \A c \in 1..(N + 1) : Len(norm_angles[c]) = N - 1
                 /\ \A lev \in 0..(FloorLog2(N) - 1) :
                       \A idx \in 0..(Pow2(lev) - 1) :
                          norm_angles[N + 1][Pow2(lev) + idx]
                             = NodeAngle(ColumnWeights(matrix), FALSE, lev, idx)
                 /\ ~is_real
                       => /\ Len(phase_angles) = N
                          /\ \A c \in 1..N : Len(phase_angles[c]) = N

\* a vector of four entries whose root splits evenly and whose second leaf
\* pair is (0, 1)
C25_Witness ==
    /\ pc = "tree_done" /\ routine = "binarytree_vector" /\ mode = "norm"
    /\ ~is_real
    /\ vector = <<1, 0, 0, 1>>
    /\ tree_angles = <<PI \div 2, 0, PI>>

\* the tables of a complex matrix of four rows
C25_TableWitness ==
    /\ pc = "tree_done" /\ routine = "rotation_angles_matrix" /\ ~is_real
    /\ Len(matrix) = 4 /\ Len(norm_angles) = 5 /\ Len(phase_angles) = 4

RECURSIVE HalvingRounds(_)
\* the rounds it takes to halve a length down to 1
HalvingRounds(len) == IF len <= 1 THEN 0 ELSE 1 + HalvingRounds(len \div 2)

\* C26 as the spec states it: for every vector of length 2^n, n >= 0,
\* angle_search_binary_tree and binarytree_vector(., 'norm') terminate: no
\* call ends in an unbounded recursion, angle_search_binary_tree returns the
\* 2^(n-1) norms the loop of binarytree_vector starts from, and that loop
\* halves them in n - 1 rounds down to one norm, which leaves 2^n - 1 angles.
C26_AsStated ==
    (routine \in {"angle_search_binary_tree", "binarytree_vector"}
     /\ mode = "norm" /\ IsPow2(Len(vector))) =>
        /\ pc # "tree_raised"
        /\ (pc = "tree_done" /\ routine = "angle_search_binary_tree")
              => /\ 2 * Len(tree_norms) = Len(vector)
                 /\ HalvingRounds(Len(tree_norms)) = FloorLog2(Len(vector)) - 1
        /\ (pc = "tree_done" /\ routine = "binarytree_vector")
              => Len(tree_angles) = Len(vector) - 1

\* binarytree_vector on a vector of one entry ends in RecursionError
C26_Witness ==
    /\ pc = "tree_raised" /\ routine = "binarytree_vector" /\ mode = "norm"
    /\ vector = <<1>>
    /\ error = "RecursionError"

\* C26 for n >= 1: the calls return and the loop runs n - 1 rounds
C26_FromTwoOn ==
    (Len(vector) >= 2) => C26_AsStated

\* the gates of layer l of axis g: the rotation compiled for target
\* target_qubits[l] and controls target_qubits[0..l-1] from the 2^l angles
\* that start at index first (from 0) of the tree
LayerStage(g, tree, first, l) ==
    compress_uniformly_rotation(
        g, target_qubits[l + 1], SubSeq(target_qubits, 1, l),
        uniformly_rotation_angles(SubSeq(tree, first + 1, first + Pow2(l))),
        epsilon)

RECURSIVE LayerStages(_, _, _, _)
\* the layers l..n-1 in increasing order; offset 0 for the norm tree, whose
\* layer l starts at 2^l - 1, and 1 for the phase tree, whose layer l starts
\* at 2^l
LayerStages(g, tree, offset, l) ==
    IF l >= Len(target_qubits) THEN <<>>
    ELSE LayerStage(g, tree, Pow2(l) - 1 + offset, l)
         \o LayerStages(g, tree, offset, l + 1)

\* a root gate on target_qubits[0], present when its angle is above epsilon
RootStage(g, angle) ==
    IF Abs(angle) > epsilon
    THEN <<Gate(g, <<target_qubits[1]>>, <<>>, angle)>> ELSE <<>>

\* C27: the circuit of compressed_state_preparation lists (complex only) the
\* root-phase RZ on target_qubits[0] from phase index 0, the root RY on
\* target_qubits[0], the RY layers l = 1..n-1 in increasing l (target
\* target_qubits[l], controls target_qubits[0..l-1], norm angles 2^l - 1 ..
\* 2^(l+1) - 2), then (complex only) the RZ on target_qubits[0] from phase
\* index 1 and the RZ layers l = 1..n-1 on the phase angles 2^l ..
\* 2^(l+1) - 1; no gate of a later stage precedes one of an earlier stage.
C27_EmissionOrder ==
    (/\ pc = "plan_done" /\ planner = "compressed_state_preparation"
     /\ outer_qubits = PyNone) =>
        LET nrm == NormAnglesOf(state, is_real)
            phs == PhaseAnglesOf(state)
            rootphase == IF is_real THEN <<>> ELSE RootStage("RZ", phs[1])
            norms == RootStage("RY", nrm[1]) \o LayerStages("RY", nrm, 0, 1)
            phases == IF is_real THEN <<>>
                      ELSE RootStage("RZ", phs[2]) \o LayerStages("RZ", phs, 1, 1)
            isRY(j) == circuit[j].name = "RY"
            isRZ(j) == circuit[j].name = "RZ"
            targetPos(j) == CHOOSE q \in 1..Len(target_qubits) :
                                target_qubits[q] = circuit[j].obj[1]
        IN  /\ circuit = (rootphase \o norms) \o phases
            /\ is_real => \A j \in 1..Len(circuit) : ~isRZ(j)
            /\ \A a, b \in 1..Len(circuit) :
                  a < b =>
                     /\ (isRZ(a) /\ isRY(b)) => (a = 1 /\ rootphase # <<>>)
                     /\ (isRY(a) /\ isRY(b)) => targetPos(a) <= targetPos(b)
                     /\ (isRZ(a) /\ isRZ(b) /\ (a > 1 \/ rootphase = <<>>))
                           => targetPos(a) <= targetPos(b)

\* a complex state on two qubits with every stage present
C27_Witness ==
    /\ pc = "plan_done" /\ planner = "compressed_state_preparation"
    /\ outer_qubits = PyNone /\ ~is_real /\ epsilon = 0
    /\ Len(target_qubits) = 2
    /\ Len(circuit) >= 6
    /\ circuit[1].name = "RZ" /\ circuit[2].name = "RY"
    /\ \E a, b \in 3..Len(circuit) :
          /\ a < b
          /\ circuit[a].name = "RY" /\ circuit[a].obj = <<target_qubits[2]>>
          /\ circuit[b].name = "RZ" /\ circuit[b].obj = <<target_qubits[2]>>
          /\ \E c \in (a + 1)..(b - 1) :
                circuit[c].name = "RZ" /\ circuit[c].obj = <<target_qubits[1]>>

\* the qubits a gate acts on
QubitsOf(gt) == {gt.obj[j] : j \in 1..Len(gt.obj)} \cup {gt.ctrl[j] : j \in 1..Len(gt.ctrl)}

\* the gates compiled from the negated tree of the column norms, layer 0
\* first, before they are reversed
GlobalCompiled ==
    LET n == FloorLog2(Len(matrix))
        tree == norm_angles[Len(norm_angles)]
        neg == [j \in 1..Len(tree) |-> 0 - tree[j]]
    IN  (IF Abs(tree[1]) > epsilon
         THEN <<Gate("RY", <<target_qubits[1]>>, <<>>, neg[1])>> ELSE <<>>)
        \o Concat([l \in 1..(n - 1) |-> LayerStage("RY", neg, Pow2(l) - 1, l)])

\* C28: the circuit of compress_qcircuit without outer controls is the PREP
\* gates, then exactly n SWAPs pairing target_qubits[q] with
\* target_qubits[n + q], q = 0..n-1 in that order, then the gates compiled
\* from the negated column-norm tree for the layers 0..n-1 in exactly
\* reversed order, which act on target_qubits[0..n-1] only; no PREP gate
\* follows a SWAP and no SWAP follows a gate of the global stage.
C28_EmissionOrder ==
    (/\ pc = "plan_done" /\ planner = "compress_qcircuit"
     /\ outer_qubits = PyNone) =>
        LET n == FloorLog2(Len(matrix))
            glob == GlobalCompiled
            g == Len(glob)
            L == Len(circuit)
            p == L - g - n
        IN  /\ p >= 0
            /\ SubSeq(circuit, 1, p)
                  = CompressPrep(matrix, target_qubits, is_real, epsilon)
            /\ \A q \in 1..n :
                  circuit[p + q]
                     = Gate("SWAP", <<target_qubits[q], target_qubits[n + q]>>,
                            <<>>, 0)
            /\ \A j \in 1..L :
                  (circuit[j].name = "SWAP") <=> (j > p /\ j <= p + n)
            /\ \A j \in 1..g : circuit[p + n + j] = glob[g + 1 - j]
            /\ \A j \in (p + n + 1)..L :
                  QubitsOf(circuit[j]) \subseteq {target_qubits[q] : q \in 1..n}

\* a matrix of four rows whose global stage has its layer-1 gates first and
\* its root rotation last
C28_Witness ==
    /\ pc = "plan_done" /\ planner = "compress_qcircuit"
    /\ outer_qubits = PyNone /\ epsilon = 0
    /\ Len(matrix) = 4
    /\ Len(GlobalCompiled) >= 3
    /\ circuit[Len(circuit)] = GlobalCompiled[1]
    /\ circuit[Len(circuit)].name = "RY"
    /\ circuit[Len(circuit)].obj = <<target_qubits[1]>>
    /\ \E j \in 1..Len(circuit) : circuit[j].name = "SWAP" /\ j > 1

\* C29: for every n >= 1 and every list of at least 2n target qubits, each
\* uniformly controlled rotation of the PREP stage of compress_qcircuit, the
\* root-phase RZ included, has as controls the prior target qubits
\* target_qubits[0..l-1] followed by exactly the n index qubits
\* target_qubits[n..2n-1], as many as log2 of the length of its angle array
\* (2^n angles for the root phase, 2^(l+n) for layer l); the gates of the
\* stage therefore act on target_qubits[0..2n-1] only.
C29_AsStated ==
    (pc = "plan_done" /\ planner = "compress_qcircuit" /\ outer_qubits = PyNone) =>
        LET n == FloorLog2(Len(matrix))
            indexq == [q \in 1..n |-> target_qubits[n + q]]
            prep == CompressPrep(matrix, target_qubits, is_real, epsilon)
        IN  /\ ~is_real =>
                  /\ RootPhaseControls(target_qubits, n) = indexq
                  /\ Len(RootPhaseControls(target_qubits, n))
                        = FloorLog2(Len(matrix))
            /\ \A l \in 0..(n - 1) :
                  /\ PrepControls(target_qubits, n, l)
                        = [q \in 1..l |-> target_qubits[q]] \o indexq
                  /\ Len(PrepControls(target_qubits, n, l))
                        = FloorLog2(Pow2(l) * Len(matrix))
            /\ SubSeq(circuit, 1, Len(prep)) = prep
            /\ \A j \in 1..Len(prep) :
                  QubitsOf(circuit[j])
                     \subseteq {target_qubits[q] : q \in 1..(2 * n)}

\* a complex matrix of eight rows with eight target qubits: the root-phase RZ
\* was compiled with target_qubits[3:8], five controls for eight angles, and
\* a CNOT of the returned circuit is controlled by a qubit past the index
\* qubits
C29_Witness ==
    /\ pc = "plan_done" /\ planner = "compress_qcircuit"
    /\ ~is_real /\ Len(matrix) = 8 /\ target_qubits = RangeList(8)
    /\ Len(RootPhaseControls(target_qubits, 3)) = 5
    /\ \E j \in 1..Len(circuit) :
          /\ circuit[j].name = "X"
          /\ circuit[j].obj = <<target_qubits[1]>>
          /\ \E q \in 7..8 : circuit[j].ctrl = <<target_qubits[q]>>

\* with exactly 2n target qubits the slice of line 153 stops at the end of
\* the list, and up to n = 2 it ends at 2n: the controls are the index qubits
C29_ShortLists ==
    (/\ pc = "plan_done" /\ planner = "compress_qcircuit" /\ ~is_real
     /\ \/ Len(target_qubits) = 2 * FloorLog2(Len(matrix))
        \/ Len(matrix) <= 4) =>
        RootPhaseControls(target_qubits, FloorLog2(Len(matrix)))
           = [q \in 1..FloorLog2(Len(matrix)) |->
                 target_qubits[FloorLog2(Len(matrix)) + q]]

\* the qubits a planner may act on: its target qubits and the outer controls
FrameQubits ==
    {target_qubits[q] : q \in 1..Len(target_qubits)}
    \cup (IF outer_qubits.t = "none" THEN {}
          ELSE {AsQubitList(outer_qubits)[q] :
                   q \in 1..Len(AsQubitList(outer_qubits))})

\* C30: for every list of n distinct target qubits, not necessarily 0..n-1,
\* and real or complex input, every gate emitted by state_preparation and by
\* compressed_state_preparation has its target and all its controls among
\* the target qubits and the outer control qubits.
C30_AsStated ==
    (/\ pc = "plan_done"
     /\ planner \in {"state_preparation", "compressed_state_preparation"}) =>
        \A j \in 1..Len(circuit) : QubitsOf(circuit[j]) \subseteq FrameQubits

\* state_preparation of a complex state on the qubits 2 and 3 has returned a
\* circuit with an RZ on qubit 0 and an RZ on qubit 1 controlled by qubit 2
C30_Witness ==
    /\ pc = "plan_done" /\ planner = "state_preparation"
    /\ ~is_real /\ target_qubits = <<2, 3>> /\ outer_qubits = PyNone
    /\ \E j \in 1..Len(circuit) :
          circuit[j].name = "RZ" /\ circuit[j].obj = <<0>>
    /\ \E j \in 1..Len(circuit) :
          /\ circuit[j].name = "RZ" /\ circuit[j].obj = <<1>>
          /\ circuit[j].ctrl = <<2>>

\* compressed_state_preparation, and state_preparation of a real state or on
\* the qubits 0..n-1, stay inside the frame
C30_ElseInside ==
    (/\ pc = "plan_done"
     /\ \/ planner = "compressed_state_preparation"
        \/ planner = "state_preparation"
           /\ (is_real \/ target_qubits = RangeList(Len(target_qubits)))) =>
        \A j \in 1..Len(circuit) : QubitsOf(circuit[j]) \subseteq FrameQubits

====
